---------------------------- MODULE Spec2Model ----------------------------
(***************************************************************************)
(* A model of the HLK-LD2410 mmWave radar driver (drivers/mmwave/           *)
(* mmwave_ld2410.c): the byte-at-a-time frame parser, the data frame        *)
(* decoder, the poll worker, the read() and ioctl() entry points.           *)
(*                                                                          *)
(* Bytes are naturals 0..255.  TLC's integers are 32-bit signed, so an      *)
(* unsigned 32-bit word (a frame magic or terminator) is kept as the pair   *)
(* of its 16-bit halves <<low half, high half>>.                            *)
(***************************************************************************)
EXTENDS Integers, Sequences, FiniteSets, TLC

(***************************************************************************)
(* Bounds of the model.                                                     *)
(***************************************************************************)
\* the number of chunks (frames, broken frames, garbage runs) on the wire
MaxChunks == 2
MaxWire == 3
MaxDrvWire == 2

(***************************************************************************)
(* Protocol constants (mmwave_ld2410.h).                                    *)
(***************************************************************************)
LD2410_MAX_FRAME_LEN == 64
LD2410_MAX_GATES == 9

\* 0xF4F3F2F1 as <<0xF2F1, 0xF4F3>>
LD2410_DATA_HEADER == <<62193, 62707>>
\* 0xF8F7F6F5 as <<0xF6F5, 0xF8F7>>
LD2410_DATA_TAIL == <<63221, 63735>>
\* 0xFDFCFBFA as <<0xFBFA, 0xFDFC>>
LD2410_CMD_HEADER == <<64506, 65020>>
\* 0x04030201 as <<0x0201, 0x0403>>
LD2410_CMD_TAIL == <<513, 1027>>

\* (uint16_t)lo | ((uint16_t)hi << 8)
LE16(lo, hi) == lo + 256 * hi

\* (uint32_t)b0 | b1 << 8 | b2 << 16 | b3 << 24, as the pair of its halves
LE32(b0, b1, b2, b3) == <<LE16(b0, b1), LE16(b2, b3)>>

\* the largest payload length the parser accepts: LD2410_MAX_FRAME_LEN - 10
MaxPayloadMut == LD2410_MAX_FRAME_LEN - 9
MaxPayload == LD2410_MAX_FRAME_LEN - 10

(***************************************************************************)
(* The frame constructors of tests/helpers/frame_builder.h.                 *)
(***************************************************************************)
Lo8(v) == v % 256
Hi8(v) == (v \div 256) % 256

build_data_frame(ts, md, me, sd, se, dd) ==
    <<241, 242, 243, 244>> \o <<Lo8(11), Hi8(11)>>
    \o <<2, 170, ts, Lo8(md), Hi8(md), me, Lo8(sd), Hi8(sd), se, Lo8(dd), Hi8(dd)>>
    \o <<245, 246, 247, 248>>

build_eng_frame(ts, md, me, sd, se, dd, mg, sg) ==
    <<241, 242, 243, 244>> \o <<Lo8(29), Hi8(29)>>
    \o <<1, 170, ts, Lo8(md), Hi8(md), me, Lo8(sd), Hi8(sd), se, Lo8(dd), Hi8(dd)>>
    \o mg \o sg
    \o <<245, 246, 247, 248>>

build_cmd_frame(cmd_code, body) ==
    <<250, 251, 252, 253>> \o <<Lo8(2 + Len(body)), Hi8(2 + Len(body))>>
    \o <<Lo8(cmd_code), Hi8(cmd_code)>> \o body
    \o <<1, 2, 3, 4>>

\* corrupt_byte: buf[offset] ^= 0xFF  (offset counted from 0)
corrupt_byte(buf, offset) ==
    [buf EXCEPT ![offset + 1] = 255 - buf[offset + 1]]

\* frame with its last four bytes replaced by t
WithTail(buf, t) == SubSeq(buf, 1, Len(buf) - 4) \o t

(***************************************************************************)
(* What the wire can carry: a sequence of chunks.  Each chunk is a valid    *)
(* frame, a broken frame, or a run of garbage.                              *)
(***************************************************************************)
FieldsA == [target_state |-> 1, motion_distance |-> 150, motion_energy |-> 80,
            static_distance |-> 200, static_energy |-> 40,
            detection_distance |-> 151]
FieldsB == [target_state |-> 2, motion_distance |-> 300, motion_energy |-> 50,
            static_distance |-> 400, static_energy |-> 20,
            detection_distance |-> 301]
FieldsE == [target_state |-> 3, motion_distance |-> 100, motion_energy |-> 55,
            static_distance |-> 65535, static_energy |-> 30,
            detection_distance |-> 101]
FieldsN == [target_state |-> 0, motion_distance |-> 0, motion_energy |-> 0,
            static_distance |-> 0, static_energy |-> 0,
            detection_distance |-> 0]
FieldsF == [FieldsA EXCEPT !.target_state = 255]
GatesM == <<10, 20, 30, 40, 50, 60, 70, 80, 90>>
GatesS == <<5, 15, 25, 35, 45, 55, 65, 75, 85>>

DataFrameOf(f) ==
    build_data_frame(f.target_state, f.motion_distance, f.motion_energy,
                     f.static_distance, f.static_energy, f.detection_distance)

Filler(k) == [i \in 1..k |-> (i * 7) % 200]

ChunkBytesOf(c) ==
    CASE c = "dataA" -> DataFrameOf(FieldsA)
      [] c = "dataB" -> DataFrameOf(FieldsB)
      [] c = "eng" ->
           build_eng_frame(FieldsE.target_state, FieldsE.motion_distance,
                           FieldsE.motion_energy, FieldsE.static_distance,
                           FieldsE.static_energy, FieldsE.detection_distance,
                           GatesM, GatesS)
      [] c = "cmdAck" -> build_cmd_frame(255, <<1, 0>>)
      [] c = "empty" -> <<241, 242, 243, 244, 0, 0, 245, 246, 247, 248>>
      [] c = "max54" -> build_cmd_frame(97, Filler(52))
      [] c = "shortData" -> <<241, 242, 243, 244, 2, 0, 2, 170, 245, 246, 247, 248>>
      [] c = "cmdAA" -> build_cmd_frame(43522, <<9>>)
      [] c = "tailBit" -> WithTail(DataFrameOf(FieldsA), <<245, 246, 243, 248>>)
      [] c = "tailLast" -> corrupt_byte(DataFrameOf(FieldsA), 20)
      [] c = "mismatch" -> WithTail(DataFrameOf(FieldsA), <<1, 2, 3, 4>>)
      [] c = "cmdMismatch" ->
           WithTail(build_cmd_frame(255, <<1, 0>>), <<245, 246, 247, 248>>)
      [] c = "badMagic" -> corrupt_byte(DataFrameOf(FieldsA), 2)
      [] c = "hdrFFFF" -> <<241, 242, 243, 244, 255, 255>>
      [] c = "hdr55" -> <<250, 251, 252, 253, 55, 0>>
      [] c = "junk" -> <<222, 173, 190, 239, 0, 17, 34, 51>>
      [] c = "pF1F2" -> <<241, 242>>
      [] c = "pFAFBFC" -> <<0, 250, 251, 252>>
      [] c = "F3F4" -> <<243, 244>>
      [] c = "open" -> <<241, 242, 243, 244, 11, 0>>
      [] c = "noHead" -> [DataFrameOf(FieldsA) EXCEPT ![8] = 187]
      [] c = "dataNone" -> DataFrameOf(FieldsN)
      [] c = "dataFF" -> DataFrameOf(FieldsF)
      [] c = "engB" ->
           build_eng_frame(FieldsB.target_state, FieldsB.motion_distance,
                           FieldsB.motion_energy, FieldsB.static_distance,
                           FieldsB.static_energy, FieldsB.detection_distance,
                           GatesS, GatesM)

ValidFrames == {"dataA", "dataB", "eng", "cmdAck", "empty", "max54",
                "shortData", "cmdAA"}
BadTailFrames == {"tailBit", "tailLast", "mismatch", "cmdMismatch"}
OversizeHeads == {"hdrFFFF", "hdr55"}
GarbageRuns == {"junk", "pF1F2", "pFAFBFC", "F3F4", "open", "badMagic"}
ParseChunks == ValidFrames \cup BadTailFrames \cup OversizeHeads \cup GarbageRuns

\* well-formed frames the parser completes and the decoder has to judge
DecoderFrames == {"noHead", "engB", "dataNone", "dataFF"}

\* the bytes of every chunk, tabulated
ChunkTable == [c \in ParseChunks \cup DecoderFrames |-> ChunkBytesOf(c)]

\* The chunk "gen" is the frame a frame constructor builds from the inputs
\* gen, which a specification draws at its start.
VARIABLE gen

NoGen == [kind |-> "none"]

GenBytes ==
    CASE gen.kind = "data" -> DataFrameOf(gen.f)
      [] gen.kind = "eng" ->
           build_eng_frame(gen.f.target_state, gen.f.motion_distance,
                           gen.f.motion_energy, gen.f.static_distance,
                           gen.f.static_energy, gen.f.detection_distance,
                           gen.mg, gen.sg)
      [] gen.kind = "bytes" -> gen.b
      [] OTHER -> <<>>

ChunkBytes(c) == IF c = "gen" THEN GenBytes ELSE ChunkTable[c]
ChunkLen(c) == Len(ChunkBytes(c))

\* all sequences over S of length 0..k
SeqsUpTo(S, k) == UNION {[1..m -> S] : m \in 0..k}

RECURSIVE Flatten(_)
Flatten(cs) ==
    IF cs = <<>> THEN <<>> ELSE ChunkBytes(Head(cs)) \o Flatten(Tail(cs))

\* number of bytes in the first k chunks
RECURSIVE BytesBefore(_, _)
BytesBefore(cs, k) ==
    IF k = 0 THEN 0 ELSE BytesBefore(cs, k - 1) + ChunkLen(cs[k])

(***************************************************************************)
(* mmwave_parse_byte.  p is the record of the parser fields of struct       *)
(* mmwave_dev_s; the result is [p |-> the fields afterwards, ret |-> the    *)
(* return value].  maxidx records the largest rxbuf index touched.          *)
(***************************************************************************)
PARSE_HEADER == "PARSE_HEADER"
PARSE_LENGTH == "PARSE_LENGTH"
PARSE_PAYLOAD == "PARSE_PAYLOAD"
PARSE_TAIL == "PARSE_TAIL"

Max(a, b) == IF a >= b THEN a ELSE b

\* rxbuf[i]; an index outside the array reads nothing the model tracks
RxAt(buf, i) == IF i \in DOMAIN buf THEN buf[i] ELSE 0

\* rxbuf[i] = byte
RxPut(buf, i, byte) == IF i \in DOMAIN buf THEN [buf EXCEPT ![i] = byte] ELSE buf

\* the tail check of PARSE_PAYLOAD
TailOkMut(header, tail) ==
    tail = LD2410_DATA_TAIL \/ tail = LD2410_CMD_TAIL
TailOk(header, tail) ==
    \/ header = LD2410_DATA_HEADER /\ tail = LD2410_DATA_TAIL
    \/ header = LD2410_CMD_HEADER /\ tail = LD2410_CMD_TAIL

\* the magic test of PARSE_HEADER
IsMagicMut(header) ==
    header = LD2410_DATA_HEADER
IsMagic(header) ==
    header = LD2410_DATA_HEADER \/ header = LD2410_CMD_HEADER

\* header miss: memmove(rxbuf, rxbuf + 1, 3); rxpos = 3
SlideWindowMut(p, buf1) ==
    [p EXCEPT !.rxbuf = buf1, !.rxpos = 0]
SlideWindow(p, buf1) ==
    [p EXCEPT !.rxbuf = [buf1 EXCEPT ![0] = buf1[1], ![1] = buf1[2], ![2] = buf1[3]],
              !.rxpos = 3]

ParseHeader(p, byte) ==
    LET put == p.rxpos < 4
        buf1 == IF put THEN RxPut(p.rxbuf, p.rxpos, byte) ELSE p.rxbuf
        pos1 == IF put THEN (p.rxpos + 1) % 256 ELSE p.rxpos
        mx1 == IF put THEN Max(p.maxidx, p.rxpos) ELSE p.maxidx
        header == LE32(buf1[0], buf1[1], buf1[2], buf1[3])
    IN  IF pos1 = 4
        THEN IF IsMagic(header)
             THEN [p EXCEPT !.rxbuf = buf1, !.rxpos = pos1, !.maxidx = Max(mx1, 3),
                            !.parse_state = PARSE_LENGTH]
             ELSE [SlideWindow(p, buf1) EXCEPT !.maxidx = Max(mx1, 3)]
        ELSE [p EXCEPT !.rxbuf = buf1, !.rxpos = pos1, !.maxidx = mx1]

ParseLengthMut(p, byte) ==
    LET buf1 == RxPut(p.rxbuf, p.rxpos, byte)
        pos1 == (p.rxpos + 1) % 256
        mx1 == Max(p.maxidx, p.rxpos)
        len == LE16(RxAt(buf1, 4), RxAt(buf1, 5))
    IN  IF pos1 = 6
        THEN IF len > MaxPayload
             THEN [p EXCEPT !.rxbuf = buf1, !.maxidx = Max(mx1, 5), !.frame_len = len,
                            !.rxpos = 0, !.parse_state = PARSE_HEADER]
             ELSE [p EXCEPT !.rxbuf = buf1, !.maxidx = Max(mx1, 5), !.frame_len = len,
                            !.rxpos = pos1, !.parse_state = PARSE_PAYLOAD]
        ELSE [p EXCEPT !.rxbuf = buf1, !.rxpos = pos1, !.maxidx = mx1]
ParseLength(p, byte) ==
    LET buf1 == RxPut(p.rxbuf, p.rxpos, byte)
        pos1 == (p.rxpos + 1) % 256
        mx1 == Max(p.maxidx, p.rxpos)
        len == LE16(RxAt(buf1, 4), RxAt(buf1, 5))
    IN  IF pos1 = 6
        THEN IF len > MaxPayload
             THEN [p EXCEPT !.rxbuf = buf1, !.maxidx = Max(mx1, 5), !.frame_len = len,
                            !.rxpos = 0, !.parse_state = PARSE_HEADER,
                            !.frames_err = p.frames_err + 1]
             ELSE [p EXCEPT !.rxbuf = buf1, !.maxidx = Max(mx1, 5), !.frame_len = len,
                            !.rxpos = pos1, !.parse_state = PARSE_PAYLOAD]
        ELSE [p EXCEPT !.rxbuf = buf1, !.rxpos = pos1, !.maxidx = mx1]

\* tail_ok: frames_ok++; rxpos = 0; parse_state = PARSE_HEADER; return 1
TailPass(p) ==
    [p |-> [p EXCEPT !.frames_ok = p.frames_ok + 1, !.rxpos = 0,
                     !.parse_state = PARSE_HEADER],
     ret |-> 1]

\* !tail_ok: frames_err++; rxpos = 0; parse_state = PARSE_HEADER
TailFailMut(p) ==
    [p |-> [p EXCEPT !.rxpos = 0, !.parse_state = PARSE_HEADER], ret |-> 0]
TailFail(p) ==
    [p |-> [p EXCEPT !.frames_err = p.frames_err + 1, !.rxpos = 0,
                     !.parse_state = PARSE_HEADER],
     ret |-> 0]

\* the frame is not complete yet: break; return 0
PendingMut(p) == [p |-> p, ret |-> 1]
Pending(p) == [p |-> p, ret |-> 0]

ParsePayload(p, byte) ==
    LET buf1 == RxPut(p.rxbuf, p.rxpos, byte)
        pos1 == (p.rxpos + 1) % 256
        mx1 == Max(p.maxidx, p.rxpos)
        tail_off == 6 + p.frame_len
        tail == LE32(RxAt(buf1, tail_off), RxAt(buf1, tail_off + 1),
                     RxAt(buf1, tail_off + 2), RxAt(buf1, tail_off + 3))
        header == LE32(buf1[0], buf1[1], buf1[2], buf1[3])
        p1 == [p EXCEPT !.rxbuf = buf1, !.rxpos = pos1, !.maxidx = mx1]
        p2 == [p1 EXCEPT !.parse_state = PARSE_TAIL,
                         !.maxidx = Max(mx1, tail_off + 3)]
    IN  IF pos1 >= 6 + p.frame_len + 4
        THEN IF TailOk(header, tail) THEN TailPass(p2) ELSE TailFail(p2)
        ELSE Pending(p1)

mmwave_parse_byte(p, byte) ==
    CASE p.parse_state = PARSE_HEADER -> [p |-> ParseHeader(p, byte), ret |-> 0]
      [] p.parse_state = PARSE_LENGTH -> [p |-> ParseLength(p, byte), ret |-> 0]
      [] p.parse_state = PARSE_PAYLOAD -> ParsePayload(p, byte)
      [] OTHER -> [p |-> [p EXCEPT !.rxpos = 0, !.parse_state = PARSE_HEADER],
                   ret |-> 0]

(***************************************************************************)
(* State.                                                                   *)
(***************************************************************************)
VARIABLES
    chunks,        \* the chunks the wire carries, in order
    ci, bi,        \* the wire's read position: bi bytes of chunk ci are consumed
    n,             \* bytes of the wire consumed so far
    parse_state, rxbuf, rxpos, frame_len,     \* struct mmwave_dev_s, parser
    frames_ok, frames_err,                    \* struct mmwave_dev_s, statistics
    ret,           \* the last return value of mmwave_parse_byte
    maxidx,        \* largest rxbuf index touched so far (-1: none)
    events,        \* the values of n at which mmwave_parse_byte returned 1
    snap,          \* snap[k+1]: the parser as it stood at the end of chunk k
    data, eng_data, eng_mode, data_valid,     \* struct mmwave_dev_s, readings
    data_sem, cmd_sem,                        \* struct mmwave_dev_s, semaphores
    ticks,         \* clock_systime_ticks()
    wpc,           \* where the poll worker stands
    rpc, rbuf,     \* per reader: where mmwave_read stands, the caller's buffer
    ipc, iarg, iret, \* per ioctl caller: position, argument, local ret
    steps,         \* per ioctl caller: the mmwave_send_command calls of its
                   \* current or latest ioctl and what each returned
    uart_tx,       \* the bytes written to the UART by each caller's current
                   \* or latest ioctl, in the order they went out
    naccept,       \* calls of mmwave_process_data_frame that returned OK
    latest,        \* the field values of the frame accepted last
    snapshots,     \* the readings as they stood after each complete update
    mon,           \* what the mmwave_read calls returned so far
    ha,            \* hactl: the reporter task ha_report_task and its locals
    sink,          \* the HTTP sink the reporter posts to
    life,          \* g_mmwave_dev, g_poll_pid, g_poll_running, and where the
                   \* poll worker and mmwave_ld2410_unregister stand
    app            \* hactl: g_reporting and the tasks hactl start has created

pvars == <<chunks, gen, ci, bi, n, parse_state, rxbuf, rxpos, frame_len, frames_ok, frames_err,
           ret, maxidx, events, snap>>
hvars == <<naccept, latest, snapshots>>
rvars == <<rpc, rbuf, mon>>
ivars == <<ipc, iarg, iret, steps, uart_tx, cmd_sem, eng_mode>>

avars == <<ha, sink, life, app>>

vars == <<pvars, data, eng_data, data_valid, ticks, wpc, hvars, rvars, ivars, avars,
          data_sem>>

Parser == [parse_state |-> parse_state, rxbuf |-> rxbuf, rxpos |-> rxpos,
           frame_len |-> frame_len, frames_ok |-> frames_ok,
           frames_err |-> frames_err, maxidx |-> maxidx]

Stream == Flatten(chunks)

Snapshot(p, r) == [parse_state |-> p.parse_state, rxpos |-> p.rxpos,
                   frames_ok |-> p.frames_ok, frames_err |-> p.frames_err,
                   ret |-> r]

Readers == {"r1", "r2"}
\* the tasks that call ioctl()
Callers == {"c1", "c2"}

\* struct mmwave_data_s, zeroed
ZeroData == [target_state |-> 0, motion_distance |-> 0, motion_energy |-> 0,
             static_distance |-> 0, static_energy |-> 0, detection_distance |-> 0,
             timestamp_ms |-> 0]

\* struct mmwave_eng_data_s, zeroed
ZeroEng == [basic |-> ZeroData,
            motion_gate_energy |-> [i \in 0..(LD2410_MAX_GATES - 1) |-> 0],
            static_gate_energy |-> [i \in 0..(LD2410_MAX_GATES - 1) |-> 0]]

NoPacket == [kind |-> "none"]
NoReading == [kind |-> "none"]

\* kmm_zalloc and the assignments of mmwave_ld2410_register
InitParser ==
    /\ ci = 1
    /\ bi = 0
    /\ n = 0
    /\ parse_state = PARSE_HEADER
    /\ rxbuf = [i \in 0..(LD2410_MAX_FRAME_LEN - 1) |-> 0]
    /\ rxpos = 0
    /\ frame_len = 0
    /\ frames_ok = 0
    /\ frames_err = 0
    /\ ret = 0
    /\ maxidx = -1
    /\ events = <<>>
    /\ snap = <<Snapshot(Parser, 0)>>

\* for (int i = 0; i < 100 && g_poll_running; i++)
UnregTries == 100

\* mmwave_ld2410_register has returned OK: g_mmwave_dev = priv, the UART is
\* open, the poll task is created and has not run yet; g_poll_running is
\* false.  n_at is the count of bytes read when the worker last tested
\* g_poll_running, ul and i are the position and the counter of
\* mmwave_ld2410_unregister.
LifeInit ==
    [dev |-> TRUE, pid |-> TRUE, running |-> FALSE, wl |-> "created", n_at |-> 0,
     ul |-> "idle", i |-> 0, signalled |-> FALSE, closed |-> FALSE, freed |-> FALSE,
     stray |-> FALSE]

\* the reporter tasks hactl start can create
MaxTasks == 2
Tasks == 1..MaxTasks

\* static volatile bool g_reporting = false; no task created; stop_pending
\* is set by a stop request and cleared by the next start
AppInit ==
    [reporting |-> FALSE, task |-> [t \in Tasks |-> "none"], stop_pending |-> FALSE]

\* uint8_t prev_state = 0xFF
HaSentinel == 255

\* ha_report_task before it runs: its locals, g_reporting, and what is kept of
\* its last call of ha_post_state
HaInit ==
    [pc |-> "open", reporting |-> FALSE, prev_state |-> HaSentinel,
     data |-> ZeroData, ret |-> "none", resp |-> <<>>, body |-> <<>>,
     json |-> [buf |-> <<>>, wrote |-> 0, ret |-> 0, size |-> 0],
     got |-> FALSE, tried |-> FALSE, failed |-> FALSE, last_ok |-> HaSentinel,
     http_buf |-> <<>>, httplen |-> 0]

\* mmwave_ld2410_register: the rest of the device, the semaphores, the tasks;
\* em is the value of eng_mode
InitDriver(em) ==
    /\ data = ZeroData
    /\ eng_data = ZeroEng
    /\ eng_mode = em
    /\ data_valid = FALSE
    /\ data_sem = 1
    /\ cmd_sem = 1
    /\ ticks = 0
    /\ wpc = "w_read"
    /\ rpc = [r \in Readers |-> "r_idle"]
    /\ rbuf = [r \in Readers |-> NoPacket]
    /\ ipc = [c \in Callers |-> [op |-> "none", ph |-> "idle", at |-> "idle"]]
    /\ iarg = [c \in Callers |-> <<>>]
    /\ iret = [c \in Callers |-> "OK"]
    /\ steps = [c \in Callers |-> <<>>]
    /\ uart_tx = <<>>
    /\ naccept = 0
    /\ latest = NoReading
    /\ snapshots = {}
    /\ mon = [eagain |-> FALSE, eagain_late |-> FALSE, ok |-> FALSE, ok_early |-> FALSE]

\* the device as registered, the poll worker in its loop, hactl not yet
\* reporting
InitReadings(em) ==
    /\ InitDriver(em)
    /\ ha = HaInit
    /\ sink = "flaky"
    /\ life = [LifeInit EXCEPT !.running = TRUE, !.wl = "body"]
    /\ app = AppInit

\* priv->eng_mode = false
InitDevice == InitReadings(FALSE)

\* the parser fields after feeding the next byte of the wire
FeedNext ==
    /\ ci <= Len(chunks)
    /\ \E r \in {mmwave_parse_byte(Parser, ChunkBytes(chunks[ci])[bi + 1])} :
        LET last == bi + 1 = ChunkLen(chunks[ci])
        IN
            /\ ci' = IF last THEN ci + 1 ELSE ci
            /\ bi' = IF last THEN 0 ELSE bi + 1
            /\ n' = n + 1
            /\ parse_state' = r.p.parse_state
            /\ rxbuf' = r.p.rxbuf
            /\ rxpos' = r.p.rxpos
            /\ frame_len' = r.p.frame_len
            /\ frames_ok' = r.p.frames_ok
            /\ frames_err' = r.p.frames_err
            /\ maxidx' = r.p.maxidx
            /\ ret' = r.ret
            /\ events' = IF r.ret = 1 THEN Append(events, n + 1) ELSE events
            /\ snap' = IF last
                       THEN Append(snap, Snapshot(r.p, r.ret)) ELSE snap
            /\ UNCHANGED <<chunks, gen>>

(***************************************************************************)
(* SpecParse: the parser alone, fed a wire byte by byte (feed_bytes of      *)
(* tests/test_parser.c).                                                    *)
(***************************************************************************)
InitParse ==
    /\ chunks \in SeqsUpTo(ParseChunks, MaxChunks)
    /\ gen = NoGen
    /\ InitParser
    /\ InitDevice

Feed ==
    /\ FeedNext
    /\ UNCHANGED <<data, eng_data, data_valid, ticks, wpc, hvars, rvars, ivars, avars,
                   data_sem>>

NextParse == Feed

SpecParse == InitParse /\ [][NextParse]_vars

(***************************************************************************)
(* The poll worker: mmwave_poll_task and mmwave_process_data_frame.         *)
(***************************************************************************)
\* feed bytes[k], bytes[k+1], ... until mmwave_parse_byte returns 1 or the
\* bytes end; k in the result is the index of the last byte fed
RECURSIVE FeedRun(_, _, _)
FeedRun(p, bytes, k) ==
    LET r == mmwave_parse_byte(p, bytes[k])
    IN  IF r.ret = 1 \/ k = Len(bytes)
        THEN [p |-> r.p, ret |-> r.ret, k |-> k]
        ELSE FeedRun(r.p, bytes, k + 1)

\* Iterations of the poll loop: read(uart_fd, &byte, 1) and mmwave_parse_byte,
\* up to the iteration whose byte completes a frame (or the last byte of the
\* wire's current chunk).  The parser fields have the worker as only owner,
\* so the iterations that complete nothing are taken in one step.
PollBytes ==
    /\ wpc = "w_read"
    /\ ci <= Len(chunks)
    /\ \E r \in {FeedRun(Parser, ChunkBytes(chunks[ci]), bi + 1)} :
       LET last == r.k = ChunkLen(chunks[ci])
       IN  /\ ci' = IF last THEN ci + 1 ELSE ci
           /\ bi' = IF last THEN 0 ELSE r.k
           /\ n' = n + (r.k - bi)
           /\ parse_state' = r.p.parse_state
           /\ rxbuf' = r.p.rxbuf
           /\ rxpos' = r.p.rxpos
           /\ frame_len' = r.p.frame_len
           /\ frames_ok' = r.p.frames_ok
           /\ frames_err' = r.p.frames_err
           /\ maxidx' = r.p.maxidx
           /\ ret' = r.ret
           /\ events' = IF r.ret = 1 THEN Append(events, n + (r.k - bi)) ELSE events
           /\ snap' = IF last THEN Append(snap, Snapshot(r.p, r.ret)) ELSE snap
           /\ wpc' = IF r.ret = 1 THEN "p_check" ELSE "w_read"
    /\ UNCHANGED <<chunks, gen, data, eng_data, data_valid, ticks, hvars, rvars,
                   ivars, avars, data_sem>>

\* payload = &priv->rxbuf[6]
payload(k) == rxbuf[6 + k]

\* data_type != 0x02 && data_type != 0x01, or payload[1] != 0xAA
Rejected == (payload(0) # 2 /\ payload(0) # 1) \/ payload(1) # 170

\* the chunk whose last byte completed the frame being processed
AcceptedChunk ==
    IF bi = 0 /\ ci > 1 /\ ChunkLen(chunks[ci - 1]) = frame_len + 10
    THEN chunks[ci - 1] ELSE "none"

\* the field values a chunk was built from, when it is a data frame
ChunkFields(c) ==
    CASE c = "dataA" -> FieldsA
      [] c = "dataB" -> FieldsB
      [] c = "eng" -> FieldsE
      [] c = "engB" -> FieldsB
      [] c = "dataNone" -> FieldsN
      [] c = "dataFF" -> FieldsF
      [] c = "gen" /\ gen.kind # "none" -> gen.f
      [] OTHER -> NoReading

\* return -EINVAL: the frame is not a target data frame
ProcRejectMut ==
    /\ wpc = "p_check"
    /\ Rejected
    /\ wpc' = "w_read"
    /\ data_valid' = FALSE
    /\ UNCHANGED <<pvars, data, eng_data, ticks, hvars, rvars, ivars, avars, data_sem>>
ProcReject ==
    /\ wpc = "p_check"
    /\ Rejected
    /\ wpc' = "w_read"
    /\ UNCHANGED <<pvars, data, eng_data, data_valid, ticks, hvars, rvars, ivars, avars,
                   data_sem>>

\* nxsem_wait(&priv->data_sem) returns 0
ProcLockMut ==
    /\ wpc = "p_check"
    /\ ~Rejected
    /\ wpc' = "p_target_state"
    /\ UNCHANGED <<pvars, data, eng_data, data_valid, ticks, hvars, rvars, ivars, avars,
                   data_sem>>
ProcLock ==
    /\ wpc = "p_check"
    /\ ~Rejected
    /\ data_sem > 0
    /\ data_sem' = data_sem - 1
    /\ wpc' = "p_target_state"
    /\ UNCHANGED <<pvars, data, eng_data, data_valid, ticks, hvars, rvars, ivars, avars>>

\* nxsem_wait(&priv->data_sem) blocks and is interrupted: return ret
ProcLockFail ==
    /\ wpc = "p_check"
    /\ ~Rejected
    /\ data_sem = 0
    /\ wpc' = "w_read"
    /\ UNCHANGED <<pvars, data, eng_data, data_valid, ticks, hvars, rvars, ivars, avars,
                   data_sem>>

\* one assignment to a field of priv->data
Assign(at, field, value, next) ==
    /\ wpc = at
    /\ data' = [data EXCEPT ![field] = value]
    /\ wpc' = next
    /\ UNCHANGED <<pvars, eng_data, data_valid, ticks, hvars, rvars, ivars, avars, data_sem>>

ProcTargetState ==
    Assign("p_target_state", "target_state", payload(2), "p_motion_distance")

ProcMotionDistanceMut ==
    Assign("p_motion_distance", "motion_distance", payload(3), "p_motion_energy")
ProcMotionDistance ==
    Assign("p_motion_distance", "motion_distance", LE16(payload(3), payload(4)),
           "p_motion_energy")

ProcMotionEnergy ==
    Assign("p_motion_energy", "motion_energy", payload(5), "p_static_distance")

ProcStaticDistance ==
    Assign("p_static_distance", "static_distance", LE16(payload(6), payload(7)),
           "p_static_energy")

ProcStaticEnergy ==
    Assign("p_static_energy", "static_energy", payload(8), "p_detection_distance")

ProcDetectionDistance ==
    Assign("p_detection_distance", "detection_distance",
           LE16(payload(9), payload(10)), "p_timestamp")

\* TICK_PER_SEC of the clock
TICK_PER_SEC == 1000

\* timestamp_ms = clock_systime_ticks() * (1000 / TICK_PER_SEC); the clock has
\* advanced by one tick since it was read last
ProcTimestamp ==
    /\ wpc = "p_timestamp"
    /\ ticks' = ticks + 1
    /\ data' = [data EXCEPT !.timestamp_ms = ticks' * (1000 \div TICK_PER_SEC)]
    /\ wpc' = "p_data_valid"
    /\ UNCHANGED <<pvars, eng_data, data_valid, hvars, rvars, ivars, avars, data_sem>>

\* data_valid = true; then the test data_type == 0x01 && priv->eng_mode
ProcDataValidMut ==
    /\ wpc = "p_data_valid"
    /\ data_valid' = TRUE
    /\ wpc' = IF payload(0) = 1 THEN "p_eng_basic" ELSE "p_post"
    /\ UNCHANGED <<pvars, data, eng_data, ticks, hvars, rvars, ivars, avars, data_sem>>
ProcDataValid ==
    /\ wpc = "p_data_valid"
    /\ data_valid' = TRUE
    /\ wpc' = IF payload(0) = 1 /\ eng_mode THEN "p_eng_basic" ELSE "p_post"
    /\ UNCHANGED <<pvars, data, eng_data, ticks, hvars, rvars, ivars, avars, data_sem>>

\* memcpy(&priv->eng_data.basic, &priv->data, sizeof(struct mmwave_data_s))
ProcEngBasic ==
    /\ wpc = "p_eng_basic"
    /\ eng_data' = [eng_data EXCEPT !.basic = data]
    /\ wpc' = "p_eng_motion"
    /\ UNCHANGED <<pvars, data, data_valid, ticks, hvars, rvars, ivars, avars, data_sem>>

\* for (i = 0; i < LD2410_MAX_GATES && i < (int)frame_len - 15; i++)
\*   motion_gate_energy[i] = eng[i]          with eng = &payload[11]
ProcEngMotion ==
    /\ wpc = "p_eng_motion"
    /\ eng_data' = [eng_data EXCEPT !.motion_gate_energy =
            [i \in 0..(LD2410_MAX_GATES - 1) |->
                IF i < frame_len - 15 THEN payload(11 + i) ELSE @[i]]]
    /\ wpc' = "p_eng_static"
    /\ UNCHANGED <<pvars, data, data_valid, ticks, hvars, rvars, ivars, avars, data_sem>>

\* eng += LD2410_MAX_GATES;
\* for (i = 0; i < LD2410_MAX_GATES && i < (int)frame_len - 24; i++)
\*   static_gate_energy[i] = eng[i]
ProcEngStatic ==
    /\ wpc = "p_eng_static"
    /\ eng_data' = [eng_data EXCEPT !.static_gate_energy =
            [i \in 0..(LD2410_MAX_GATES - 1) |->
                IF i < frame_len - 24 THEN payload(11 + LD2410_MAX_GATES + i)
                ELSE @[i]]]
    /\ wpc' = "p_post"
    /\ UNCHANGED <<pvars, data, data_valid, ticks, hvars, rvars, ivars, avars, data_sem>>

\* nxsem_post(&priv->data_sem); return OK
ProcUnlock ==
    /\ wpc = "p_post"
    /\ data_sem' = data_sem + 1
    /\ wpc' = "w_read"
    /\ naccept' = naccept + 1
    /\ latest' = IF ChunkFields(AcceptedChunk) = NoReading
                 THEN NoReading
                 ELSE [f \in DOMAIN ZeroData |->
                         IF f = "timestamp_ms" THEN data.timestamp_ms
                         ELSE ChunkFields(AcceptedChunk)[f]]
    /\ snapshots' = snapshots \cup {data}
    /\ UNCHANGED <<pvars, data, eng_data, data_valid, ticks, rvars, ivars, avars>>

Worker ==
    \/ PollBytes
    \/ ProcReject
    \/ ProcLock
    \/ ProcLockFail
    \/ ProcTargetState
    \/ ProcMotionDistance
    \/ ProcMotionEnergy
    \/ ProcStaticDistance
    \/ ProcStaticEnergy
    \/ ProcDetectionDistance
    \/ ProcTimestamp
    \/ ProcDataValid
    \/ ProcUnlock

WorkerEng ==
    \/ ProcEngBasic
    \/ ProcEngMotion
    \/ ProcEngStatic

(***************************************************************************)
(* mmwave_read, one call per reader at a time.                              *)
(***************************************************************************)
\* sizeof(struct mmwave_data_s) and sizeof(struct mmwave_eng_data_s)
SizeofData == 16
SizeofEng == 36

\* the buffer lengths callers pass: too short, a reading, an engineering reading
BufLens == {8, SizeofData, SizeofEng}

\* if (!priv->data_valid) return -EAGAIN
ReadNotReady(r) ==
    /\ rpc[r] = "r_idle"
    /\ ~data_valid
    /\ mon' = [mon EXCEPT !.eagain = TRUE,
                          !.eagain_late = @ \/ naccept > 0]
    /\ UNCHANGED <<pvars, data, eng_data, data_valid, ticks, wpc, hvars, rpc, rbuf,
                   ivars, avars, data_sem>>

\* the test of data_valid passes; the call goes on to nxsem_wait
ReadCheck(r) ==
    /\ rpc[r] = "r_idle"
    /\ data_valid
    /\ rpc' = [rpc EXCEPT ![r] = "r_wait"]
    /\ UNCHANGED <<pvars, data, eng_data, data_valid, ticks, wpc, hvars, rbuf, mon,
                   ivars, avars, data_sem>>

\* nxsem_wait(&priv->data_sem) returns 0
ReadLock(r) ==
    /\ rpc[r] = "r_wait"
    /\ data_sem > 0
    /\ data_sem' = data_sem - 1
    /\ rpc' = [rpc EXCEPT ![r] = "r_copy"]
    /\ UNCHANGED <<pvars, data, eng_data, data_valid, ticks, wpc, hvars, rbuf, mon,
                   ivars, avars>>

\* nxsem_wait(&priv->data_sem) blocks and is interrupted: return ret
ReadLockFail(r) ==
    /\ rpc[r] = "r_wait"
    /\ data_sem = 0
    /\ rpc' = [rpc EXCEPT ![r] = "r_idle"]
    /\ UNCHANGED <<pvars, data, eng_data, data_valid, ticks, wpc, hvars, rbuf, mon,
                   ivars, avars, data_sem>>

\* the three branches on eng_mode and buflen, with their memcpy
ReadCopy(r) ==
    /\ rpc[r] = "r_copy"
    /\ \E buflen \in BufLens :
          rbuf' = [rbuf EXCEPT ![r] =
                     IF eng_mode /\ buflen >= SizeofEng
                     THEN [kind |-> "eng", copylen |-> SizeofEng, eng |-> eng_data]
                     ELSE IF buflen >= SizeofData
                     THEN [kind |-> "data", copylen |-> SizeofData, data |-> data]
                     ELSE [kind |-> "einval"]]
    /\ rpc' = [rpc EXCEPT ![r] = "r_post"]
    /\ UNCHANGED <<pvars, data, eng_data, data_valid, ticks, wpc, hvars, mon, ivars, avars,
                   data_sem>>

\* nxsem_post(&priv->data_sem); return copylen or -EINVAL
ReadUnlock(r) ==
    /\ rpc[r] = "r_post"
    /\ data_sem' = data_sem + 1
    /\ rpc' = [rpc EXCEPT ![r] = "r_idle"]
    /\ rbuf' = [rbuf EXCEPT ![r] = NoPacket]
    /\ mon' = IF rbuf[r].kind = "einval" THEN mon
              ELSE [mon EXCEPT !.ok = TRUE, !.ok_early = @ \/ naccept = 0]
    /\ UNCHANGED <<pvars, data, eng_data, data_valid, ticks, wpc, hvars, ivars, avars>>

mmwave_read(r) ==
    \/ ReadNotReady(r)
    \/ ReadCheck(r)
    \/ ReadLock(r)
    \/ ReadLockFail(r)
    \/ ReadCopy(r)
    \/ ReadUnlock(r)

(***************************************************************************)
(* mmwave_ioctl with mmwave_send_command, mmwave_enter_config and           *)
(* mmwave_exit_config.  write() puts the frame on the line in two pieces,   *)
(* so that two writes in progress at once would show on the line.           *)
(***************************************************************************)
LD2410_CMD_ENABLE_CONFIG == 255
LD2410_CMD_DISABLE_CONFIG == 254
LD2410_CMD_SET_MAXGATE == 96
LD2410_CMD_SET_SENSITIVITY == 100
LD2410_CMD_FACTORY_RESET == 162
LD2410_CMD_RESTART == 163
LD2410_CMD_ENG_MODE_ON == 98
LD2410_CMD_ENG_MODE_OFF == 99

\* the frame mmwave_send_command builds
CommandFrame(cmd, cmddata) ==
    <<250, 251, 252, 253>>
    \o <<(2 + Len(cmddata)) % 256, ((2 + Len(cmddata)) \div 256) % 256>>
    \o <<cmd % 256, (cmd \div 256) % 256>>
    \o cmddata
    \o <<1, 2, 3, 4>>

\* data[18] of case MMWAVE_IOC_SET_SENSITIVITY; a = <<gate, motion, static>>
SensitivityData(a) ==
    <<0, 0, a[1] % 256, 0, 0, 0,
      1, 0, a[2] % 256, 0, 0, 0,
      2, 0, a[3] % 256, 0, 0, 0>>

\* data[18] of case MMWAVE_IOC_SET_MAXGATE; a = <<motion gate, static gate, timeout_s>>
MaxGateData(a) ==
    <<0, 0, a[1] % 256, 0, 0, 0,
      1, 0, a[2] % 256, 0, 0, 0,
      2, 0, a[3] % 256, (a[3] \div 256) % 256, 0, 0>>

\* the mmwave_send_command call each case makes between enter and exit
OpFrame(op, a) ==
    CASE op = "sens" -> CommandFrame(LD2410_CMD_SET_SENSITIVITY, SensitivityData(a))
      [] op = "maxgate" -> CommandFrame(LD2410_CMD_SET_MAXGATE, MaxGateData(a))
      [] op = "eng" -> CommandFrame(IF a[1] # 0 THEN LD2410_CMD_ENG_MODE_ON
                                    ELSE LD2410_CMD_ENG_MODE_OFF, <<>>)
      [] op = "restart" -> CommandFrame(LD2410_CMD_RESTART, <<>>)
      [] op = "freset" -> CommandFrame(LD2410_CMD_FACTORY_RESET, <<>>)

\* the datalen bytes at data, for a call with a = <<cmd, datalen, pattern>>
RawBody(a) ==
    IF a[3] = "fill" THEN Filler(a[2])
    ELSE [i \in 1..a[2] |-> <<1, 2, 3, 4>>[((i - 1) % 4) + 1]]

\* the frame of the mmwave_send_command call caller c is making
PhaseFrame(c) ==
    CASE ipc[c].ph = "enter" -> CommandFrame(LD2410_CMD_ENABLE_CONFIG, <<1, 0>>)
      [] ipc[c].ph = "raw" -> CommandFrame(iarg[c][1], RawBody(iarg[c]))
      [] ipc[c].ph = "cmd" -> OpFrame(ipc[c].op, iarg[c])
      [] ipc[c].ph = "exit" -> CommandFrame(LD2410_CMD_DISABLE_CONFIG, <<>>)

Phases == {"enter", "cmd", "exit"}

\* the bytes of a write that are out when another task can next run
WriteHead == 6

\* the line without what caller c wrote during its previous ioctl
Forget(c) ==
    LET Other(p) == p.by # c
    IN  SelectSeq(uart_tx, Other)

\* ioctl() returns r before any mmwave_send_command call
IoctlRefuse(c, op, a, r) ==
    /\ ipc[c].at = "idle"
    /\ ipc' = [ipc EXCEPT ![c] = [op |-> op, ph |-> "idle", at |-> "idle"]]
    /\ iarg' = [iarg EXCEPT ![c] = a]
    /\ iret' = [iret EXCEPT ![c] = r]
    /\ steps' = [steps EXCEPT ![c] = <<>>]
    /\ uart_tx' = Forget(c)
    /\ UNCHANGED <<pvars, data, eng_data, data_valid, ticks, wpc, hvars, rvars, avars,
                   cmd_sem, eng_mode, data_sem>>

\* ret = OK; the call enters a case and calls mmwave_enter_config
IoctlEnter(c, op, a) ==
    /\ ipc[c].at = "idle"
    /\ ipc' = [ipc EXCEPT ![c] = [op |-> op, ph |-> "enter", at |-> "wait"]]
    /\ iarg' = [iarg EXCEPT ![c] = a]
    /\ iret' = [iret EXCEPT ![c] = "OK"]
    /\ steps' = [steps EXCEPT ![c] = <<>>]
    /\ uart_tx' = Forget(c)
    /\ UNCHANGED <<pvars, data, eng_data, data_valid, ticks, wpc, hvars, rvars, avars,
                   cmd_sem, eng_mode, data_sem>>

\* arguments of MMWAVE_IOC_SET_SENSITIVITY: <<gate, motion, static>>
SensitivityArgs == {<<8, 50, 40>>, <<9, 50, 40>>, <<8, 101, 40>>}

\* arguments of MMWAVE_IOC_SET_MAXGATE: <<motion gate, static gate, timeout_s>>
MaxGateArgs == {<<8, 6, 300>>, <<9, 6, 300>>}

\* case MMWAVE_IOC_SET_SENSITIVITY
IoctlSetSensitivityMut(c) == \E a \in SensitivityArgs : IoctlEnter(c, "sens", a)
IoctlSetSensitivity(c) ==
    \E a \in SensitivityArgs :
        IF a[1] >= LD2410_MAX_GATES
        THEN IoctlRefuse(c, "sens", a, "EINVAL")
        ELSE IoctlEnter(c, "sens", a)

\* case MMWAVE_IOC_SET_MAXGATE
IoctlSetMaxGate(c) == \E a \in MaxGateArgs : IoctlEnter(c, "maxgate", a)

\* case MMWAVE_IOC_ENG_MODE: enable = (int)arg
IoctlEngMode(c) == \E enable \in {0, 1} : IoctlEnter(c, "eng", <<enable>>)

\* case MMWAVE_IOC_RESTART
IoctlRestart(c) == IoctlEnter(c, "restart", <<>>)

\* case MMWAVE_IOC_FACTORY_RESET
IoctlFactoryReset(c) == IoctlEnter(c, "freset", <<>>)

\* default: ret = -ENOTTY
IoctlDefault(c) == IoctlRefuse(c, "unknown", <<>>, "ENOTTY")

\* what the case does once its mmwave_send_command call has returned r:
\* after enter, break on an error; after the command, keep its result and
\* call mmwave_exit_config, whose result is dropped
AfterSendAnyMut(c, r) ==
    /\ steps' = [steps EXCEPT ![c] = Append(@, [ph |-> ipc[c].ph, r |-> r])]
    /\ iret' = [iret EXCEPT ![c] = IF ipc[c].ph = "exit" THEN @ ELSE r]
    /\ eng_mode' = IF ipc[c].op = "eng" /\ ipc[c].ph = "cmd"
                   THEN iarg[c][1] # 0 ELSE eng_mode
    /\ ipc' = [ipc EXCEPT ![c] =
                 CASE ipc[c].ph = "enter" /\ r = "OK" -> [@ EXCEPT !.ph = "cmd", !.at = "wait"]
                   [] ipc[c].ph = "enter" /\ r # "OK" -> [@ EXCEPT !.ph = "idle", !.at = "idle"]
                   [] ipc[c].ph = "cmd" -> [@ EXCEPT !.ph = "exit", !.at = "wait"]
                   [] ipc[c].ph \in {"exit", "raw"} -> [@ EXCEPT !.ph = "idle", !.at = "idle"]]
AfterSendMut(c, r) ==
    /\ steps' = [steps EXCEPT ![c] = Append(@, [ph |-> ipc[c].ph, r |-> r])]
    /\ iret' = [iret EXCEPT ![c] = IF ipc[c].ph = "exit" THEN @ ELSE r]
    /\ eng_mode' = IF ipc[c].op = "eng" /\ ipc[c].ph = "cmd" /\ r = "OK"
                   THEN iarg[c][1] # 0 ELSE eng_mode
    /\ ipc' = [ipc EXCEPT ![c] =
                 CASE ipc[c].ph = "enter" /\ r = "OK" -> [@ EXCEPT !.ph = "cmd", !.at = "wait"]
                   [] ipc[c].ph = "cmd" /\ r = "OK" -> [@ EXCEPT !.ph = "exit", !.at = "wait"]
                   [] OTHER -> [@ EXCEPT !.ph = "idle", !.at = "idle"]]
AfterSend(c, r) ==
    /\ steps' = [steps EXCEPT ![c] = Append(@, [ph |-> ipc[c].ph, r |-> r])]
    /\ iret' = [iret EXCEPT ![c] = IF ipc[c].ph = "exit" THEN @ ELSE r]
    /\ eng_mode' = IF ipc[c].op = "eng" /\ ipc[c].ph = "cmd" /\ r = "OK"
                   THEN iarg[c][1] # 0 ELSE eng_mode
    /\ ipc' = [ipc EXCEPT ![c] =
                 CASE ipc[c].ph = "enter" /\ r = "OK" -> [@ EXCEPT !.ph = "cmd", !.at = "wait"]
                   [] ipc[c].ph = "enter" /\ r # "OK" -> [@ EXCEPT !.ph = "idle", !.at = "idle"]
                   [] ipc[c].ph = "cmd" -> [@ EXCEPT !.ph = "exit", !.at = "wait"]
                   [] ipc[c].ph \in {"exit", "raw"} -> [@ EXCEPT !.ph = "idle", !.at = "idle"]]

\* mmwave_send_command: nxsem_wait(&priv->cmd_sem) returns 0, the frame is
\* built and write() starts to put it on the line
SendLockMut(c) ==
    /\ ipc[c].at = "wait"
    /\ cmd_sem' = cmd_sem - 1
    /\ ipc' = [ipc EXCEPT ![c].at = "write"]
    /\ uart_tx' = Append(uart_tx, [by |-> c, off |-> 0,
                                   bytes |-> SubSeq(PhaseFrame(c), 1, WriteHead)])
    /\ UNCHANGED <<pvars, data, eng_data, data_valid, ticks, wpc, hvars, rvars, avars,
                   iarg, iret, steps, eng_mode, data_sem>>
SendLock(c) ==
    /\ ipc[c].at = "wait"
    /\ cmd_sem > 0
    /\ cmd_sem' = cmd_sem - 1
    /\ ipc' = [ipc EXCEPT ![c].at = "write"]
    /\ uart_tx' = Append(uart_tx, [by |-> c, off |-> 0,
                                   bytes |-> SubSeq(PhaseFrame(c), 1, WriteHead)])
    /\ UNCHANGED <<pvars, data, eng_data, data_valid, ticks, wpc, hvars, rvars, avars,
                   iarg, iret, steps, eng_mode, data_sem>>

\* mmwave_send_command: the task would block in nxsem_wait, which a signal
\* ends with an error; the call returns it without a write
SendLockFail(c) ==
    /\ ipc[c].at = "wait"
    /\ cmd_sem = 0
    /\ AfterSend(c, "EINTR")
    /\ UNCHANGED <<pvars, data, eng_data, data_valid, ticks, wpc, hvars, rvars, avars,
                   iarg, uart_tx, cmd_sem, data_sem>>

\* mmwave_send_command: write() returns, with the whole frame out or short
\* of it; nxsem_post; a short write returns -EIO at once, and what the case
\* does with it follows; after a whole write the task goes to its usleep
SendWrite(c) ==
    /\ ipc[c].at = "write"
    /\ cmd_sem' = cmd_sem + 1
    /\ \E written_ok \in BOOLEAN :
         IF written_ok
         THEN /\ uart_tx' = Append(uart_tx,
                                   [by |-> c, off |-> WriteHead,
                                    bytes |-> SubSeq(PhaseFrame(c), WriteHead + 1,
                                                     Len(PhaseFrame(c)))])
              /\ ipc' = [ipc EXCEPT ![c].at = "quiet"]
              /\ UNCHANGED <<iret, steps, eng_mode>>
         ELSE /\ AfterSend(c, "EIO")
              /\ UNCHANGED uart_tx
    /\ UNCHANGED <<pvars, data, eng_data, data_valid, ticks, wpc, hvars, rvars, avars,
                   iarg, data_sem>>

\* mmwave_send_command: usleep(50000) is over; return OK; then what the case
\* does with it
SendQuiet(c) ==
    /\ ipc[c].at = "quiet"
    /\ AfterSend(c, "OK")
    /\ UNCHANGED <<pvars, data, eng_data, data_valid, ticks, wpc, hvars, rvars, avars,
                   iarg, uart_tx, cmd_sem, data_sem>>

mmwave_send_command(c) ==
    \/ SendLock(c)
    \/ SendLockFail(c)
    \/ SendWrite(c)
    \/ SendQuiet(c)

\* uint16_t frame_len = 4 + 2 + payload_len + 4, payload_len = 2 + datalen
FrameLen16(datalen) == (4 + 2 + ((2 + datalen) % 65536) + 4) % 65536

\* mmwave_send_command(priv, cmd, data, datalen) called by itself, with the
\* command code, the length and the bytes that gen names
SendCall(c) ==
    /\ gen.kind = "send"
    /\ ipc[c] = [op |-> "none", ph |-> "idle", at |-> "idle"]
    /\ ipc' = [ipc EXCEPT ![c] = [op |-> "raw", ph |-> "raw", at |-> "check"]]
    /\ iarg' = [iarg EXCEPT ![c] = <<gen.cmd, gen.datalen, gen.pattern>>]
    /\ UNCHANGED <<pvars, data, eng_data, data_valid, ticks, wpc, hvars, rvars, avars,
                   iret, steps, uart_tx, cmd_sem, eng_mode, data_sem>>

\* if (frame_len > LD2410_MAX_FRAME_LEN) return -EINVAL
SendCheck(c) ==
    /\ ipc[c].at = "check"
    /\ IF FrameLen16(iarg[c][2]) > LD2410_MAX_FRAME_LEN
       THEN /\ AfterSend(c, "EINVAL")
            /\ UNCHANGED <<pvars, data, eng_data, data_valid, ticks, wpc, hvars,
                           rvars, avars, iarg, uart_tx, cmd_sem, data_sem>>
       ELSE /\ ipc' = [ipc EXCEPT ![c].at =
                         IF 8 + iarg[c][2] + 4 > LD2410_MAX_FRAME_LEN
                         THEN "overrun" ELSE "wait"]
            /\ UNCHANGED <<pvars, data, eng_data, data_valid, ticks, wpc, hvars,
                           rvars, avars, iarg, iret, steps, uart_tx, cmd_sem, eng_mode,
                           data_sem>>

\* the check passed with 8 + datalen + 4 > sizeof(frame): nxsem_wait, then
\* memcpy(&frame[pos], data, datalen) writes past frame[].  The behaviour is
\* undefined: the task dies with cmd_sem taken, or it goes on, writes from
\* frame (whose first six bytes are the header and the wrapped length) and
\* returns what it makes of the count
SendOverrun(c) ==
    /\ ipc[c].at = "overrun"
    /\ cmd_sem > 0
    /\ \E outcome \in {"crash", "OK", "EIO"} :
         IF outcome = "crash"
         THEN /\ ipc' = [ipc EXCEPT ![c].at = "crashed"]
              /\ cmd_sem' = cmd_sem - 1
              /\ UNCHANGED <<iret, steps, uart_tx, eng_mode>>
         ELSE /\ uart_tx' = Append(uart_tx,
                                   [by |-> c, off |-> 0,
                                    bytes |-> <<250, 251, 252, 253,
                                                Lo8(2 + iarg[c][2]), Hi8(2 + iarg[c][2])>>])
              /\ AfterSend(c, outcome)
              /\ UNCHANGED cmd_sem
    /\ UNCHANGED <<pvars, data, eng_data, data_valid, ticks, wpc, hvars, rvars, avars,
                   iarg, data_sem>>

mmwave_ioctl(c) ==
    \/ IoctlSetSensitivity(c)
    \/ IoctlSetMaxGate(c)
    \/ IoctlEngMode(c)
    \/ IoctlRestart(c)
    \/ IoctlFactoryReset(c)
    \/ IoctlDefault(c)

(***************************************************************************)
(* hactl: ha_format_state_json, ha_post_state and ha_report_task.  Text is  *)
(* a sequence of characters.                                                *)
(***************************************************************************)
\* the pieces of the snprintf format of the JSON body
JsonState ==
    <<"{", "\"", "s", "t", "a", "t", "e", "\"", ":", "\"">>
JsonAttributes ==
    <<"\"", ",", "\"", "a", "t", "t", "r", "i", "b", "u", "t", "e", "s",
      "\"", ":", "{", "\"", "f", "r", "i", "e", "n", "d", "l", "y", "_", "n",
      "a", "m", "e", "\"", ":", "\"", "m", "m", "W", "a", "v", "e", " ", "P",
      "r", "e", "s", "e", "n", "c", "e", "\"", ",", "\"", "d", "e", "v", "i",
      "c", "e", "_", "c", "l", "a", "s", "s", "\"", ":", "\"", "o", "c", "c",
      "u", "p", "a", "n", "c", "y", "\"", ",", "\"", "m", "o", "t", "i", "o",
      "n", "_", "e", "n", "e", "r", "g", "y", "\"", ":">>
JsonStaticEnergy ==
    <<",", "\"", "s", "t", "a", "t", "i", "c", "_", "e", "n", "e", "r", "g",
      "y", "\"", ":">>
JsonMotionDistance ==
    <<",", "\"", "m", "o", "t", "i", "o", "n", "_", "d", "i", "s", "t", "a",
      "n", "c", "e", "\"", ":">>
JsonStaticDistance ==
    <<",", "\"", "s", "t", "a", "t", "i", "c", "_", "d", "i", "s", "t", "a",
      "n", "c", "e", "\"", ":">>
JsonDetectionDistance ==
    <<",", "\"", "d", "e", "t", "e", "c", "t", "i", "o", "n", "_", "d", "i",
      "s", "t", "a", "n", "c", "e", "\"", ":">>
JsonEnd ==
    <<"}", "}">>

Digits == <<"0", "1", "2", "3", "4", "5", "6", "7", "8", "9">>

\* %u
RECURSIVE Dec(_)
Dec(v) == IF v < 10 THEN <<Digits[v + 1]>> ELSE Dec(v \div 10) \o <<Digits[(v % 10) + 1]>>

\* (data->target_state != LD2410_TARGET_NONE) ? "on" : "off"
StateTextMut(target_state) == IF target_state = 1 THEN <<"o", "n">> ELSE <<"o", "f", "f">>
StateText(target_state) == IF target_state # 0 THEN <<"o", "n">> ELSE <<"o", "f", "f">>

\* what the snprintf of the JSON body would write with room for all of it
JsonText(state, d) ==
    JsonState \o state \o JsonAttributes \o Dec(d.motion_energy)
    \o JsonStaticEnergy \o Dec(d.static_energy)
    \o JsonMotionDistance \o Dec(d.motion_distance)
    \o JsonStaticDistance \o Dec(d.static_distance)
    \o JsonDetectionDistance \o Dec(d.detection_distance)
    \o JsonEnd

Min(a, b) == IF a < b THEN a ELSE b

\* ha_format_state_json(buf, bufsize, data): buf up to its NUL, the number of
\* bytes snprintf wrote (the NUL included, nothing when bufsize is 0) and the
\* value returned
ha_format_state_jsonMut(bufsize, d) ==
    LET text == JsonText(StateText(d.target_state), d)
    IN  [buf |-> SubSeq(text, 1, Min(Len(text), bufsize - 1)),
         wrote |-> IF bufsize = 0 THEN 0 ELSE Min(Len(text), bufsize - 1) + 1,
         ret |-> IF Len(text) > bufsize THEN -1 ELSE Len(text)]
ha_format_state_json(bufsize, d) ==
    LET text == JsonText(StateText(d.target_state), d)
    IN  [buf |-> SubSeq(text, 1, Min(Len(text), bufsize - 1)),
         wrote |-> IF bufsize = 0 THEN 0 ELSE Min(Len(text), bufsize - 1) + 1,
         ret |-> IF Len(text) >= bufsize THEN -1 ELSE Len(text)]

\* char body[256] of ha_post_state after its snprintf
PostBody(d) ==
    LET text == JsonText(StateText(d.target_state), d)
    IN  SubSeq(text, 1, Min(Len(text), 255))

\* strstr(haystack, needle) != NULL
StrStr(haystack, needle) ==
    \E i \in 1..(Len(haystack) - Len(needle) + 1) :
        SubSeq(haystack, i, i + Len(needle) - 1) = needle

\* what recv() can deliver
Resp200 ==
    <<"H", "T", "T", "P", "/", "1", ".", "1", " ", "2", "0", "0", " ", "O",
      "K", "\r", "\n", "\r", "\n">>
Resp201 ==
    <<"H", "T", "T", "P", "/", "1", ".", "1", " ", "2", "0", "1", " ", "C",
      "r", "e", "a", "t", "e", "d", "\r", "\n", "\r", "\n">>
Resp401 ==
    <<"H", "T", "T", "P", "/", "1", ".", "1", " ", "4", "0", "1", " ", "U",
      "n", "a", "u", "t", "h", "o", "r", "i", "z", "e", "d", "\r", "\n",
      "\r", "\n">>
Resp500 ==
    <<"H", "T", "T", "P", "/", "1", ".", "1", " ", "5", "0", "0", " ", "I",
      "n", "t", "e", "r", "n", "a", "l", " ", "S", "e", "r", "v", "e", "r",
      " ", "E", "r", "r", "o", "r", "\r", "\n", "C", "o", "n", "t", "e", "n",
      "t", "-", "L", "e", "n", "g", "t", "h", ":", " ", "2", "0", "0", "\r",
      "\n", "\r", "\n">>

\* what ha_post_state meets: the configuration, socket(), inet_pton() or
\* gethostbyname(), connect(), send() and the bytes recv() delivers
GoodEnv ==
    [config |-> TRUE, socket |-> TRUE, resolve |-> TRUE, connect |-> TRUE,
     sent |-> TRUE, resp |-> Resp200]

PostEnvs ==
    {GoodEnv,
     [GoodEnv EXCEPT !.config = FALSE],
     [GoodEnv EXCEPT !.socket = FALSE],
     [GoodEnv EXCEPT !.resolve = FALSE],
     [GoodEnv EXCEPT !.connect = FALSE],
     [GoodEnv EXCEPT !.sent = FALSE],
     [GoodEnv EXCEPT !.resp = Resp201],
     [GoodEnv EXCEPT !.resp = Resp401],
     [GoodEnv EXCEPT !.resp = Resp500],
     [GoodEnv EXCEPT !.resp = <<>>]}

\* sizeof(http_buf)
HA_HTTP_BUF_SIZE == 512

\* the pieces of the snprintf format of the HTTP request, HA_ENTITY_ID filled in
HttpPost ==
    <<"P", "O", "S", "T", " ", "/", "a", "p", "i", "/", "s", "t", "a", "t", "e", "s",
      "/", "b", "i", "n", "a", "r", "y", "_", "s", "e", "n", "s", "o", "r", ".", "m",
      "m", "w", "a", "v", "e", "_", "p", "r", "e", "s", "e", "n", "c", "e", " ", "H",
      "T", "T", "P", "/", "1", ".", "1", "\r", "\n">>
HttpHost ==
    <<"H", "o", "s", "t", ":", " ">>
HttpAuthorization ==
    <<"\r", "\n", "A", "u", "t", "h", "o", "r", "i", "z", "a", "t", "i", "o", "n", ":",
      " ", "B", "e", "a", "r", "e", "r", " ">>
HttpContentLength ==
    <<"\r", "\n", "C", "o", "n", "t", "e", "n", "t", "-", "T", "y", "p", "e", ":", " ",
      "a", "p", "p", "l", "i", "c", "a", "t", "i", "o", "n", "/", "j", "s", "o", "n",
      "\r", "\n", "C", "o", "n", "t", "e", "n", "t", "-", "L", "e", "n", "g", "t", "h",
      ":", " ">>
HttpConnection ==
    <<"\r", "\n", "C", "o", "n", "n", "e", "c", "t", "i", "o", "n", ":", " ", "c", "l",
      "o", "s", "e", "\r", "\n", "\r", "\n">>

\* sizeof url and sizeof token in struct ha_config_s
HA_MAX_URL_LEN == 128
HA_MAX_TOKEN_LEN == 256

\* what the snprintf of the HTTP request would write with room for all of it
HttpText(host, port, token, bodylen, body) ==
    HttpPost \o HttpHost \o host \o <<":">> \o Dec(port)
    \o HttpAuthorization \o token
    \o HttpContentLength \o Dec(bodylen)
    \o HttpConnection \o body

\* ha_post_state: bodylen = snprintf(body, sizeof(body), ...); httplen =
\* snprintf(http_buf, sizeof(http_buf), ...): http_buf up to its NUL and the
\* count that send() is given
PostRequest(cfg, d) ==
    LET whole == JsonText(StateText(d.target_state), d)
        text == HttpText(cfg.host, cfg.port, cfg.token, Len(whole), PostBody(d))
    IN  [http_buf |-> SubSeq(text, 1, Min(Len(text), HA_HTTP_BUF_SIZE - 1)),
         httplen |-> Len(text)]

\* ha_post_state(data) in the surroundings e: the value returned
ha_post_state(d, e) ==
    LET http_buf == SubSeq(e.resp, 1, Min(Len(e.resp), HA_HTTP_BUF_SIZE - 1))
    IN  IF ~e.config THEN "EINVAL"
        ELSE IF ~e.socket THEN "ERRNO"
        ELSE IF ~e.resolve THEN "ENOENT"
        ELSE IF ~e.connect THEN "ERRNO"
        ELSE IF ~e.sent THEN "EIO"
        ELSE IF /\ Len(http_buf) > 0
                /\ \/ StrStr(http_buf, <<"2", "0", "0">>)
                   \/ StrStr(http_buf, <<"2", "0", "1">>)
        THEN "OK"
        ELSE "EIO"

\* what is left alone by every step of the reporter
RptFrame ==
    UNCHANGED <<pvars, data, eng_data, data_valid, ticks, wpc, hvars, rvars, ivars,
                data_sem, sink, life, app>>

\* fd = open(MMWAVE_DEV_PATH, O_RDONLY); g_reporting = true
RptOpen ==
    /\ ha.pc = "open"
    /\ \E opened \in BOOLEAN :
         ha' = IF opened THEN [ha EXCEPT !.pc = "loop", !.reporting = TRUE]
               ELSE [ha EXCEPT !.pc = "failed"]
    /\ RptFrame

\* hactl stop: g_reporting = false
RptStop ==
    /\ ha.reporting
    /\ ha' = [ha EXCEPT !.reporting = FALSE]
    /\ RptFrame

\* while (g_reporting); after the loop close(fd) and return OK
RptLoop ==
    /\ ha.pc = "loop"
    /\ ha' = [ha EXCEPT !.pc = IF ha.reporting THEN "read" ELSE "closed"]
    /\ RptFrame

\* nread = read(fd, &data, sizeof(data)): mmwave_read with buflen =
\* sizeof(struct mmwave_data_s), which returns -EAGAIN before the first
\* frame, an error when its wait for data_sem is cut short, and else copies
\* priv->data under data_sem
RptRead ==
    /\ ha.pc = "read"
    /\ ha' = IF data_valid /\ data_sem > 0
             THEN [ha EXCEPT !.pc = "compare", !.data = data, !.got = TRUE]
             ELSE [ha EXCEPT !.pc = "sleep"]
    /\ RptFrame

\* if (data.target_state != prev_state)
RptCompare ==
    /\ ha.pc = "compare"
    /\ ha' = IF ha.data.target_state # ha.prev_state
             THEN [ha EXCEPT !.pc = "post", !.tried = TRUE]
             ELSE [ha EXCEPT !.pc = "sleep"]
    /\ RptFrame

\* int ret = ha_post_state(&data)
RptPost ==
    /\ ha.pc = "post"
    /\ \E e \in IF sink = "up" THEN {GoodEnv} ELSE PostEnvs :
         \E r \in {ha_post_state(ha.data, e)} :
            ha' = [ha EXCEPT !.pc = "posted", !.ret = r,
                             !.resp = IF e.config /\ e.socket /\ e.resolve
                                         /\ e.connect /\ e.sent
                                      THEN e.resp ELSE <<>>,
                             !.body = IF e.config /\ e.socket /\ e.resolve /\ e.connect
                                      THEN PostBody(ha.data) ELSE <<>>,
                             !.failed = @ \/ r # "OK",
                             !.last_ok = IF r = "OK" THEN ha.data.target_state ELSE @]
    /\ RptFrame

\* if (ret == OK) prev_state = data.target_state; else fprintf(stderr, ...)
RptAfterMut ==
    /\ ha.pc = "posted"
    /\ ha' = [ha EXCEPT !.pc = "sleep", !.prev_state = ha.data.target_state,
                        !.resp = <<>>, !.body = <<>>]
    /\ RptFrame
RptAfter ==
    /\ ha.pc = "posted"
    /\ ha' = [ha EXCEPT !.pc = "sleep",
                        !.prev_state = IF ha.ret = "OK" THEN ha.data.target_state ELSE @,
                        !.resp = <<>>, !.body = <<>>]
    /\ RptFrame

\* usleep(g_ha_config.report_interval_ms * 1000)
RptSleepMut ==
    /\ ha.pc = "sleep"
    /\ ha' = [ha EXCEPT !.pc = IF ha.failed THEN "closed" ELSE "loop"]
    /\ RptFrame
RptSleep ==
    /\ ha.pc = "sleep"
    /\ ha' = [ha EXCEPT !.pc = "loop"]
    /\ RptFrame

ha_report_task ==
    \/ RptOpen
    \/ RptLoop
    \/ RptRead
    \/ RptCompare
    \/ RptPost
    \/ RptAfter
    \/ RptSleep

\* the sink comes up for good: from now on it answers 200 OK
SinkUp ==
    /\ sink = "flaky"
    /\ sink' = "up"
    /\ UNCHANGED <<pvars, data, eng_data, data_valid, ticks, wpc, hvars, rvars, ivars,
                   data_sem, ha, life, app>>

(***************************************************************************)
(* The life of the poll worker: the start of mmwave_poll_task, its loop and *)
(* mmwave_ld2410_unregister.                                                *)
(***************************************************************************)
LifeFrame ==
    UNCHANGED <<pvars, data, eng_data, data_valid, ticks, wpc, hvars, rvars, ivars,
                data_sem, ha, sink, app>>

\* mmwave_poll_task: priv = g_mmwave_dev; if (priv == NULL || priv->uart_fd < 0)
\* return -ENODEV
WorkerStart ==
    /\ life.wl = "created"
    /\ life' = [life EXCEPT !.wl = IF life.dev THEN "run" ELSE "nodev"]
    /\ LifeFrame

\* g_poll_running = true
WorkerRun ==
    /\ life.wl = "run"
    /\ life' = [life EXCEPT !.running = TRUE, !.wl = "loop"]
    /\ LifeFrame

\* while (g_poll_running)
WorkerWhile ==
    /\ life.wl = "loop"
    /\ life' = [life EXCEPT !.wl = IF life.running THEN "body" ELSE "exited",
                            !.n_at = n]
    /\ LifeFrame

\* nread = read(priv->uart_fd, &byte, 1) gives a byte of the open UART, and
\* mmwave_parse_byte takes it
WorkerPoll ==
    /\ life.wl = "body"
    /\ n = life.n_at
    /\ ~life.closed
    /\ PollBytes

\* read gives no byte: nothing has arrived, or the descriptor is closed and
\* read fails with EBADF; usleep.  Once priv is freed, priv->uart_fd is
\* whatever the heap holds there: the closed descriptor, or a number that
\* names another open file, which the worker then reads
WorkerIdle ==
    /\ life.wl = "body"
    /\ n = life.n_at
    /\ wpc = "w_read"
    /\ \E other \in IF life.freed THEN BOOLEAN ELSE {FALSE} :
         life' = [life EXCEPT !.wl = "loop", !.stray = @ \/ other]
    /\ LifeFrame

\* the iteration that took a byte is over
WorkerAgain ==
    /\ life.wl = "body"
    /\ n # life.n_at
    /\ wpc = "w_read"
    /\ life' = [life EXCEPT !.wl = "loop"]
    /\ LifeFrame

\* mmwave_process_data_frame(priv) of the iteration
WorkerProcess ==
    /\ life.wl = "body"
    /\ \/ ProcLock
       \/ ProcTargetState
       \/ ProcMotionDistance
       \/ ProcMotionEnergy
       \/ ProcStaticDistance
       \/ ProcStaticEnergy
       \/ ProcDetectionDistance
       \/ ProcTimestamp
       \/ ProcDataValid
       \/ ProcUnlock

\* mmwave_ld2410_unregister: priv = g_mmwave_dev; if (priv == NULL) return -ENODEV
UnregStart ==
    /\ life.ul = "idle"
    /\ life' = [life EXCEPT !.ul = IF life.dev THEN "stop" ELSE "enodev"]
    /\ LifeFrame

\* g_poll_running = false; if (g_poll_pid > 0)
UnregStop ==
    /\ life.ul = "stop"
    /\ life' = [life EXCEPT !.running = FALSE, !.signalled = TRUE, !.i = 0,
                            !.ul = IF life.pid THEN "wait" ELSE "close"]
    /\ LifeFrame

\* for (int i = 0; i < 100 && g_poll_running; i++) usleep(10000)
UnregWait ==
    /\ life.ul = "wait"
    /\ life' = IF life.i < UnregTries /\ life.running
               THEN [life EXCEPT !.i = @ + 1]
               ELSE [life EXCEPT !.ul = "close"]
    /\ LifeFrame

\* if (priv->uart_fd >= 0) close(priv->uart_fd)
UnregClose ==
    /\ life.ul = "close"
    /\ life' = [life EXCEPT !.closed = TRUE, !.ul = "free"]
    /\ LifeFrame

\* unregister_driver; nxsem_destroy; kmm_free(priv); g_mmwave_dev = NULL;
\* g_poll_pid = -1; return OK
UnregFree ==
    /\ life.ul = "free"
    /\ life' = [life EXCEPT !.freed = TRUE, !.dev = FALSE, !.pid = FALSE, !.ul = "done"]
    /\ LifeFrame

mmwave_ld2410_unregister ==
    \/ UnregStart
    \/ UnregStop
    \/ UnregWait
    \/ UnregClose
    \/ UnregFree

\* what mmwave_poll_task does around its read and its frame processing
WorkerLife ==
    \/ WorkerStart
    \/ WorkerRun
    \/ WorkerWhile
    \/ WorkerIdle
    \/ WorkerAgain

mmwave_poll_task ==
    \/ WorkerLife
    \/ WorkerPoll
    \/ WorkerProcess

(***************************************************************************)
(* hactl start and hactl stop, with the tasks start creates; of             *)
(* ha_report_task each keeps the frame of its loop.                         *)
(***************************************************************************)
AppFrame ==
    UNCHANGED <<pvars, data, eng_data, data_valid, ticks, wpc, hvars, rvars, ivars,
                data_sem, ha, sink, life>>

\* hactl start: if (g_reporting) return OK; g_report_pid = task_create(...)
HactlStart ==
    /\ IF app.reporting
       THEN app' = app
       ELSE \E t \in Tasks :
              /\ app.task[t] = "none"
              /\ \A u \in Tasks : u < t => app.task[u] # "none"
              /\ app' = [app EXCEPT !.task[t] = "created", !.stop_pending = FALSE]
    /\ AppFrame

\* hactl stop: g_reporting = false
HactlStop ==
    /\ app' = [app EXCEPT !.reporting = FALSE,
                          !.stop_pending = \E t \in Tasks : app.task[t] # "none"]
    /\ AppFrame

\* ha_report_task: fd = open(MMWAVE_DEV_PATH, O_RDONLY); on a failure return
\* EXIT_FAILURE; g_reporting = true
TaskOpen(t) ==
    /\ app.task[t] = "created"
    /\ \E opened \in BOOLEAN :
         app' = IF opened THEN [app EXCEPT !.task[t] = "loop", !.reporting = TRUE]
                ELSE [app EXCEPT !.task[t] = "failed"]
    /\ AppFrame

\* while (g_reporting); after the loop close(fd); return OK
TaskWhile(t) ==
    /\ app.task[t] = "loop"
    /\ app' = [app EXCEPT !.task[t] = IF app.reporting THEN "tick" ELSE "closed"]
    /\ AppFrame

\* the body of the loop up to the usleep: read and, after a change, ha_post_state
TaskTick(t) ==
    /\ app.task[t] = "tick"
    /\ app' = [app EXCEPT !.task[t] = "sleep"]
    /\ AppFrame

\* usleep(g_ha_config.report_interval_ms * 1000)
TaskSleep(t) ==
    /\ app.task[t] = "sleep"
    /\ app' = [app EXCEPT !.task[t] = "loop"]
    /\ AppFrame

ReportTask(t) ==
    \/ TaskOpen(t)
    \/ TaskWhile(t)
    \/ TaskTick(t)
    \/ TaskSleep(t)

(***************************************************************************)
(* SpecRW: the poll worker and two readers, engineering mode off.           *)
(***************************************************************************)
RWChunks == {"dataA", "dataB", "cmdAck", "tailBit", "noHead"}

InitRW ==
    /\ chunks \in SeqsUpTo(RWChunks, MaxWire)
    /\ gen = NoGen
    /\ InitParser
    /\ InitDevice

NextRW ==
    \/ Worker
    \/ \E r \in Readers : mmwave_read(r)

SpecRW == InitRW /\ [][NextRW]_vars

(***************************************************************************)
(* SpecDrv: the poll worker, one reader and one caller of the               *)
(* MMWAVE_IOC_ENG_MODE ioctl.                                               *)
(***************************************************************************)
DrvChunks == {"dataA", "eng", "engB", "shortData", "cmdAA", "cmdAck"}

InitDrv ==
    /\ chunks \in SeqsUpTo(DrvChunks, MaxDrvWire)
    /\ gen = NoGen
    /\ InitParser
    /\ InitDevice

NextDrv ==
    \/ Worker
    \/ WorkerEng
    \/ mmwave_read("r1")
    \/ IoctlEngMode("c1")
    \/ SendLock("c1")
    \/ SendWrite("c1")
    \/ SendQuiet("c1")

SpecDrv == InitDrv /\ [][NextDrv]_vars

(***************************************************************************)
(* SpecCodec: one frame built by build_data_frame or build_eng_frame from   *)
(* inputs drawn at the start, parsed and processed by the poll worker       *)
(* (parse_and_process of tests/test_data_extract.c).  eng_mode is false, as *)
(* registration leaves it, or true, as an MMWAVE_IOC_ENG_MODE ioctl that    *)
(* succeeded before the frame leaves it.                                    *)
(***************************************************************************)
TargetStates == {0, 1, 3, 4, 255}
Distances == {0, 258, 65535}
Energies == {0, 100, 255}

DataInputs ==
    [target_state : TargetStates, motion_distance : Distances,
     motion_energy : Energies, static_distance : Distances,
     static_energy : Energies, detection_distance : Distances]

GateRows == {GatesM, GatesS, [i \in 1..LD2410_MAX_GATES |-> 255]}

GenInputs ==
    [kind : {"data"}, f : DataInputs]
    \cup [kind : {"eng"}, f : {FieldsA, FieldsE}, mg : GateRows, sg : GateRows]

InitCodec ==
    /\ chunks = <<"gen">>
    /\ gen \in GenInputs
    /\ InitParser
    /\ \E em \in BOOLEAN : InitReadings(em)

NextCodec ==
    \/ PollBytes
    \/ ProcLock
    \/ ProcTargetState
    \/ ProcMotionDistance
    \/ ProcMotionEnergy
    \/ ProcStaticDistance
    \/ ProcStaticEnergy
    \/ ProcDetectionDistance
    \/ ProcTimestamp
    \/ ProcDataValid
    \/ WorkerEng
    \/ ProcUnlock

SpecCodec == InitCodec /\ [][NextCodec]_vars

(***************************************************************************)
(* SpecCmd: the poll worker with one engineering frame on the wire, a task  *)
(* that makes any ioctl call and a second task that restarts the radar.     *)
(***************************************************************************)
InitCmd ==
    /\ chunks = <<"eng">>
    /\ gen = NoGen
    /\ InitParser
    /\ InitDevice

NextCmd ==
    \/ NextCodec
    \/ mmwave_ioctl("c1")
    \/ IoctlRestart("c2")
    \/ \E c \in Callers : mmwave_send_command(c)

SpecCmd == InitCmd /\ [][NextCmd]_vars

(***************************************************************************)
(* SpecEng: two tasks that switch engineering mode on and off, each with    *)
(* its own ioctl calls, on a quiet wire.                                    *)
(***************************************************************************)
InitEng ==
    /\ chunks = <<>>
    /\ gen = NoGen
    /\ InitParser
    /\ InitDevice

NextEng ==
    \E c \in Callers :
        \/ IoctlEngMode(c)
        \/ mmwave_send_command(c)

SpecEng == InitEng /\ [][NextEng]_vars

(***************************************************************************)
(* SpecCfg: the poll worker with one engineering frame on the wire, one     *)
(* reader and one task that makes any ioctl call.                           *)
(***************************************************************************)
InitCfg ==
    /\ chunks = <<"eng">>
    /\ gen = NoGen
    /\ InitParser
    /\ InitDevice

NextCfg ==
    \/ NextCodec
    \/ mmwave_read("r1")
    \/ mmwave_ioctl("c1")
    \/ SendLock("c1")
    \/ SendWrite("c1")
    \/ SendQuiet("c1")

SpecCfg == InitCfg /\ [][NextCfg]_vars

(***************************************************************************)
(* SpecSend: one call of mmwave_send_command with a command code and a body *)
(* drawn from SendInputs; the bytes a successful call wrote are then fed to *)
(* the parser of a fresh device, as the tests feed a built frame.           *)
(***************************************************************************)
CmdCodes == {0, 98, 43522, 65535}
DataLens == {0, 1, 18, 52, 53, 54, 65523, 65524, 65534, 65535}

SendInputs ==
    [kind : {"send"}, cmd : CmdCodes, datalen : DataLens, pattern : {"fill", "tail"}]

\* every byte on the line, in the order written
RECURSIVE LineBytes(_)
LineBytes(ps) == IF ps = <<>> THEN <<>> ELSE Head(ps).bytes \o LineBytes(Tail(ps))

\* the call returned OK: what it wrote goes to the parser
Loopback ==
    /\ gen.kind = "send"
    /\ ipc["c1"].at = "idle"
    /\ steps["c1"] = <<[ph |-> "raw", r |-> "OK"]>>
    /\ gen' = [kind |-> "bytes", b |-> LineBytes(uart_tx)]
    /\ chunks' = <<"gen">>
    /\ UNCHANGED <<ci, bi, n, parse_state, rxbuf, rxpos, frame_len, frames_ok,
                   frames_err, ret, maxidx, events, snap>>
    /\ UNCHANGED <<data, eng_data, data_valid, ticks, wpc, hvars, rvars, ivars, avars,
                   data_sem>>

InitSend ==
    /\ chunks = <<>>
    /\ gen \in SendInputs
    /\ InitParser
    /\ InitDevice

NextSend ==
    \/ SendCall("c1")
    \/ SendCheck("c1")
    \/ SendOverrun("c1")
    \/ SendLock("c1")
    \/ SendWrite("c1")
    \/ SendQuiet("c1")
    \/ Loopback
    \/ Feed

SpecSend == InitSend /\ [][NextSend]_vars

(***************************************************************************)
(* SpecHa: the poll worker with data frames on the wire, the reporter task  *)
(* of hactl and the HTTP sink.  SpecHaLive adds that the reporter and the   *)
(* frame decoder run whenever they can.                                     *)
(***************************************************************************)
MaxHaWire == 2

HaChunks == {"dataA", "dataNone", "dataFF"}

InitHa ==
    /\ chunks \in SeqsUpTo(HaChunks, MaxHaWire)
    /\ gen = NoGen
    /\ InitParser
    /\ InitDevice

\* mmwave_process_data_frame on a standard data frame
HaDecode ==
    \/ ProcLock
    \/ ProcTargetState
    \/ ProcMotionDistance
    \/ ProcMotionEnergy
    \/ ProcStaticDistance
    \/ ProcStaticEnergy
    \/ ProcDetectionDistance
    \/ ProcTimestamp
    \/ ProcDataValid
    \/ ProcUnlock

NextHa ==
    \/ PollBytes
    \/ HaDecode
    \/ ha_report_task
    \/ RptStop
    \/ SinkUp

SpecHa == InitHa /\ [][NextHa]_vars

SpecHaLive == SpecHa /\ WF_vars(ha_report_task) /\ WF_vars(HaDecode)

(***************************************************************************)
(* SpecFmt: ha_format_state_json and ha_post_state applied to a reading     *)
(* with any target_state byte.                                              *)
(***************************************************************************)
\* make_data(state, ...) of the tests, for every state byte
FmtReadings ==
    {[r EXCEPT !.target_state = t] :
        r \in {ZeroData,
               [ZeroData EXCEPT !.motion_distance = 1234, !.motion_energy = 83,
                                !.static_distance = 65535, !.static_energy = 47,
                                !.detection_distance = 150]},
        t \in 0..255}

\* sizeof of the buffers handed to ha_format_state_json
JsonBufSizes == {0, 1, 10, 64, 256, 512}

\* the two sizes around the length of the body of reading d
EdgeBufSizes(d) ==
    {Len(JsonText(StateText(d.target_state), d)),
     Len(JsonText(StateText(d.target_state), d)) + 1}

InitFmt ==
    /\ chunks = <<>>
    /\ gen = NoGen
    /\ InitParser
    /\ InitDriver(FALSE)
    /\ \E d \in FmtReadings : ha = [HaInit EXCEPT !.pc = "post", !.data = d]
    /\ sink = "flaky"
    /\ life = [LifeInit EXCEPT !.running = TRUE, !.wl = "body"]
    /\ app = AppInit

\* ha_format_state_json(json_buf, sizeof(json_buf), &d)
FmtJson ==
    /\ ha.json.ret = 0
    /\ \E bufsize \in JsonBufSizes \cup EdgeBufSizes(ha.data) :
         \E r \in {ha_format_state_json(bufsize, ha.data)} :
            ha' = [ha EXCEPT !.json = [buf |-> r.buf, wrote |-> r.wrote,
                                       ret |-> r.ret, size |-> bufsize]]
    /\ RptFrame

NextFmt ==
    \/ FmtJson
    \/ RptPost

SpecFmt == InitFmt /\ [][NextFmt]_vars

(***************************************************************************)
(* SpecLife: register has returned; the poll worker starts, runs and        *)
(* mmwave_ld2410_unregister is called once, in any interleaving.            *)
(* SpecLifeLive: the same with the worker scheduled fairly.                 *)
(***************************************************************************)
MaxLifeWire == 1

InitLife ==
    /\ chunks \in SeqsUpTo({"dataA", "dataNone"}, MaxLifeWire)
    /\ gen = NoGen
    /\ InitParser
    /\ InitDriver(FALSE)
    /\ ha = HaInit
    /\ sink = "flaky"
    /\ life = LifeInit
    /\ app = AppInit

NextLife ==
    \/ mmwave_poll_task
    \/ mmwave_ld2410_unregister

SpecLife == InitLife /\ [][NextLife]_vars

SpecLifeLive == SpecLife /\ WF_vars(WorkerLife) /\ WF_vars(WorkerProcess)

(***************************************************************************)
(* SpecApp: hactl start and hactl stop in any order, with the tasks start   *)
(* creates.  SpecAppLive: the same with every task scheduled fairly.        *)
(***************************************************************************)
InitApp ==
    /\ chunks = <<>>
    /\ gen = NoGen
    /\ InitParser
    /\ InitDevice

NextApp ==
    \/ HactlStart
    \/ HactlStop
    \/ \E t \in Tasks : ReportTask(t)

SpecApp == InitApp /\ [][NextApp]_vars

SpecAppLive == SpecApp /\ \A t \in Tasks : WF_vars(ReportTask(t))

(***************************************************************************)
(* SpecHttp: the request ha_post_state builds and hands to send(), for      *)
(* hosts and tokens of the lengths struct ha_config_s allows.               *)
(***************************************************************************)
\* a text of k characters
Chars(ch, k) == [i \in 1..k |-> ch]

\* g_ha_config after hactl config <url> <token>
HttpConfigs ==
    {[kind |-> "http", host |-> Chars("h", hl), port |-> port, token |-> Chars("t", tl)] :
        hl \in {1, 13, HA_MAX_URL_LEN - 1},
        port \in {80, 8123},
        tl \in {1, 32, 183, HA_MAX_TOKEN_LEN - 1}}

HttpReadings ==
    {r \in FmtReadings : r.target_state \in {0, 1, 3, 255}}

InitHttp ==
    /\ chunks = <<>>
    /\ gen \in HttpConfigs
    /\ InitParser
    /\ InitDriver(FALSE)
    /\ \E d \in HttpReadings : ha = [HaInit EXCEPT !.pc = "post", !.data = d]
    /\ sink = "flaky"
    /\ life = [LifeInit EXCEPT !.running = TRUE, !.wl = "body"]
    /\ app = AppInit

\* ha_post_state up to its call of send()
PostBuild ==
    /\ ha.pc = "post"
    /\ ha.httplen = 0
    /\ \E r \in {PostRequest(gen, ha.data)} :
         ha' = [ha EXCEPT !.body = PostBody(ha.data), !.http_buf = r.http_buf,
                          !.httplen = r.httplen]
    /\ RptFrame

NextHttp == PostBuild

SpecHttp == InitHttp /\ [][NextHttp]_vars

(***************************************************************************)
(* Claims about the parser, checked under SpecParse.                        *)
(***************************************************************************)
DataMagic == <<241, 242, 243, 244>>
DataTerm == <<245, 246, 247, 248>>
CmdMagic == <<250, 251, 252, 253>>
CmdTerm == <<1, 2, 3, 4>>

\* b starts with a magic, carries a length of at most 54 and has room for
\* exactly that payload and four more bytes
FramedBytes(b) ==
    /\ Len(b) >= 10
    /\ SubSeq(b, 1, 4) \in {DataMagic, CmdMagic}
    /\ b[5] + 256 * b[6] <= 54
    /\ Len(b) = 10 + b[5] + 256 * b[6]

\* the last four bytes of b are the terminator of the family of its magic
TermMatches(b) ==
    \/ SubSeq(b, 1, 4) = DataMagic /\ SubSeq(b, Len(b) - 3, Len(b)) = DataTerm
    \/ SubSeq(b, 1, 4) = CmdMagic /\ SubSeq(b, Len(b) - 3, Len(b)) = CmdTerm

\* magic[4] | len[2 LE] | payload[len] | terminator[4]
IsFrame(b) == FramedBytes(b) /\ TermMatches(b)

ContainsMagic(b) ==
    \E i \in 1..(Len(b) - 3) : SubSeq(b, i, i + 3) \in {DataMagic, CmdMagic}

Range(f) == {f[i] : i \in DOMAIN f}

\* the value of n at the end of chunk k
EndOf(k) == BytesBefore(chunks, k)

\* chunks fully fed so far
Done == 1..(ci - 1)

\* C1: every rxbuf index the parser writes or reads lies in 0..63 and rxpos
\* never exceeds 64, whatever bytes are fed.
C1_BufferBound ==
    /\ maxidx <= LD2410_MAX_FRAME_LEN - 1
    /\ rxpos <= LD2410_MAX_FRAME_LEN

\* a 54-byte payload has been accepted: index 63 was used
C1_Witness == maxidx = 63 /\ frames_ok = 1

\* C6: the parser returns 1 only on the last byte of a contiguous run
\* magic | len LE | payload[len] | terminator with len <= 54 and the terminator
\* of the magic's family; a lone frame with a corrupted magic byte completes
\* nothing.
C6_CompleteOnlyOnFrame ==
    /\ ret = 1 =>
         \E len \in 0..54 :
            /\ n >= 10 + len
            /\ IsFrame(SubSeq(Stream, n - 9 - len, n))
    /\ chunks = <<"badMagic">> => frames_ok = 0

\* a frame completes right after a frame with a corrupted magic was skipped
C6_Witness ==
    /\ Len(chunks) = 2 /\ chunks[1] = "badMagic"
    /\ ret = 1 /\ frames_ok = 1 /\ n = Len(Stream)

\* C7: k valid frames back to back give one Complete on the last byte of each,
\* frames_ok = k and frames_err = 0, and the parser is in PARSE_HEADER with
\* rxpos = 0 right after each Complete.
C7_BackToBack ==
    (\A i \in 1..Len(chunks) : IsFrame(ChunkBytes(chunks[i]))) =>
        /\ events = [k \in Done |-> EndOf(k)]
        /\ frames_ok = ci - 1
        /\ frames_err = 0
        /\ ret = 1 => parse_state = PARSE_HEADER /\ rxpos = 0

\* a data frame followed by a command frame, both completed
C7_Witness ==
    /\ chunks = <<"dataA", "cmdAck">>
    /\ ci = 3 /\ Len(events) = 2 /\ frames_ok = 2

\* C8 as stated: whatever precedes a valid frame, the frame's last byte
\* yields a Complete.
C8_AnyPrefix ==
    \A i \in Done :
        IsFrame(ChunkBytes(chunks[i])) => EndOf(i) \in Range(events)

\* C8 amended: a valid frame that starts while the parser is in PARSE_HEADER
\* (the bytes before it do not end inside a frame a magic has opened) yields
\* a Complete on its last byte.
C8_PrefixInHeader ==
    \A i \in Done :
        (IsFrame(ChunkBytes(chunks[i])) /\ snap[i].parse_state = PARSE_HEADER)
            => EndOf(i) \in Range(events)

\* a frame completed although it started with a partial window pending
C8_Witness ==
    /\ Len(chunks) = 2 /\ ci = 3
    /\ IsFrame(ChunkBytes(chunks[2]))
    /\ snap[2].parse_state = PARSE_HEADER /\ snap[2].rxpos = 3
    /\ EndOf(2) \in Range(events)

\* C9: garbage holding no magic, then one valid frame: exactly one Complete,
\* on the frame's last byte, frames_ok = 1 and frames_err = 0.
C9_GarbageResync ==
    LET k == Len(chunks)
    IN  (/\ k >= 2
         /\ IsFrame(ChunkBytes(chunks[k]))
         /\ ~ContainsMagic(Flatten(SubSeq(chunks, 1, k - 1))))
        => IF ci > k
           THEN events = <<Len(Stream)>> /\ frames_ok = 1 /\ frames_err = 0
           ELSE events = <<>> /\ frames_ok = 0 /\ frames_err = 0

\* the prefix ends in the partial magic F1 F2 and the frame was still found
C9_Witness ==
    /\ chunks = <<"pF1F2", "dataA">>
    /\ ci = 3 /\ events = <<23>> /\ frames_ok = 1

\* C10: a frame with a matched magic, len <= 54 and four bytes after the
\* payload that are not its family's terminator: no Complete, frames_err + 1,
\* frames_ok unchanged, and the parser back in PARSE_HEADER with rxpos = 0.
C10_BadTail ==
    \A i \in Done :
        LET b == ChunkBytes(chunks[i])
        IN  (/\ FramedBytes(b) /\ ~TermMatches(b)
             /\ snap[i].parse_state = PARSE_HEADER)
            => /\ EndOf(i) \notin Range(events)
               /\ snap[i + 1].ret = 0
               /\ snap[i + 1].frames_err = snap[i].frames_err + 1
               /\ snap[i + 1].frames_ok = snap[i].frames_ok
               /\ snap[i + 1].parse_state = PARSE_HEADER
               /\ snap[i + 1].rxpos = 0

\* a valid frame, then a data frame carrying the command terminator
C10_Witness ==
    /\ chunks = <<"dataA", "mismatch">>
    /\ ci = 3 /\ frames_ok = 1 /\ frames_err = 1

\* b is a magic followed by two length bytes that encode more than 54
OversizeHead(b) ==
    /\ Len(b) = 6
    /\ SubSeq(b, 1, 4) \in {DataMagic, CmdMagic}
    /\ b[5] + 256 * b[6] > 54

\* C11: a length above 54 after a matched magic: on the second length byte
\* frames_err + 1, no Complete, the parser in PARSE_HEADER with rxpos = 0,
\* and a valid frame that follows is found as by a fresh parser; the parser
\* never accumulates a payload longer than 54, and a length of exactly 54 is
\* no error: the payload is accumulated and the frame completes.
C11_OversizeLength ==
    /\ \A i \in Done :
         (OversizeHead(ChunkBytes(chunks[i])) /\ snap[i].parse_state = PARSE_HEADER)
            => /\ snap[i + 1].frames_err = snap[i].frames_err + 1
               /\ snap[i + 1].frames_ok = snap[i].frames_ok
               /\ snap[i + 1].ret = 0
               /\ EndOf(i) \notin Range(events)
               /\ snap[i + 1].parse_state = PARSE_HEADER
               /\ snap[i + 1].rxpos = 0
               /\ (i + 1 \in Done /\ IsFrame(ChunkBytes(chunks[i + 1])))
                     => EndOf(i + 1) \in Range(events)
    /\ parse_state = PARSE_PAYLOAD => frame_len <= 54
    /\ \A i \in 1..Len(chunks) :
         LET b == ChunkBytes(chunks[i])
         IN  (/\ IsFrame(b) /\ b[5] + 256 * b[6] = 54
              /\ i <= ci /\ snap[i].parse_state = PARSE_HEADER)
             => /\ (i = ci /\ bi >= 6) => parse_state = PARSE_PAYLOAD /\ frame_len = 54
                /\ i \in Done => /\ snap[i + 1].frames_err = snap[i].frames_err
                                 /\ EndOf(i) \in Range(events)

\* a length of 55 was refused and the 54-byte frame after it was accepted
C11_Witness ==
    /\ chunks = <<"hdr55", "max54">>
    /\ ci = 3 /\ frames_err = 1 /\ frames_ok = 1 /\ events = <<70>>

\* C12 as stated: the number of Complete events is at most |S| / 14.
C12_AtMostOnePer14 == Len(events) <= n \div 14

\* C12 amended: the shortest frame the parser accepts is the 10-byte frame
\* with an empty payload, so the number of Complete events is at most |S| / 10.
C12_AtMostOnePer10 == Len(events) <= n \div 10

\* two empty-payload frames: two Completes in 20 bytes
C12_Witness ==
    /\ chunks = <<"empty", "empty">>
    /\ n = 20 /\ Len(events) = 2


(***************************************************************************)
(* Claims about the reading, checked under SpecRW and SpecDrv.              *)
(***************************************************************************)
\* the worker is between its nxsem_wait and its nxsem_post of data_sem
UpdatePcs == {"p_target_state", "p_motion_distance", "p_motion_energy",
              "p_static_distance", "p_static_energy", "p_detection_distance",
              "p_timestamp", "p_data_valid", "p_eng_basic", "p_eng_motion",
              "p_eng_static", "p_post"}

\* the worker has executed data_valid = true and not yet returned
AfterValidPcs == {"p_eng_basic", "p_eng_motion", "p_eng_static", "p_post"}

WorkerHolds == wpc \in UpdatePcs
ReaderHolds(r) == rpc[r] \in {"r_copy", "r_post"}
Holders == (IF WorkerHolds THEN 1 ELSE 0) + Cardinality({r \in Readers : ReaderHolds(r)})

\* the struct mmwave_data_s a returned packet carries
PacketBasic(pk) == IF pk.kind = "eng" THEN pk.eng.basic ELSE pk.data

\* C2: mmwave_read never copies the reading while mmwave_process_data_frame
\* is part-way through assigning it.  data_sem counts exactly the free slot:
\* it is 1 minus the number of tasks between their wait and their post, so at
\* most one task is there, and it is 1 again whenever every task is outside
\* (released on every exit path).  Every Reading-sized packet a read is about
\* to return equals the reading as it stood after one complete update.
C2_ReadNeverTorn ==
    /\ data_sem = 1 - Holders
    /\ data_sem \in {0, 1}
    /\ \A r \in Readers :
         rpc[r] = "r_post" /\ rbuf[r].kind = "data" => rbuf[r].data \in snapshots

\* a reader holds the copy of the first frame's reading while the worker,
\* with the second frame complete in rxbuf, waits for data_sem
C2_Witness ==
    \E r \in Readers :
       /\ rpc[r] = "r_post"
       /\ rbuf[r].kind = "data"
       /\ rbuf[r].data.target_state = FieldsA.target_state
       /\ wpc = "p_check"
       /\ ~Rejected
       /\ payload(2) = FieldsB.target_state
       /\ naccept = 1

\* C3: mmwave_read returns -EAGAIN before the first frame is accepted and
\* never afterwards.  data_valid is false until a frame has passed the checks
\* of mmwave_process_data_frame, is true once one was accepted whatever
\* arrived later, no read returned -EAGAIN after an acceptance, no read
\* returned a packet before one, and a read that is past its test of
\* data_valid never sees it false again.
C3_NotReadyUntilFirstAccept ==
    /\ naccept > 0 => data_valid
    /\ data_valid => naccept > 0 \/ wpc \in AfterValidPcs
    /\ ~mon.eagain_late
    /\ ~mon.ok_early
    /\ \A r \in Readers : rpc[r] # "r_idle" => data_valid

\* a read returned -EAGAIN, a frame was accepted, a corrupt frame and a
\* rejected frame followed, and a read returned a packet
C3_Witness ==
    /\ chunks = <<"dataA", "tailBit", "cmdAck">>
    /\ ci > Len(chunks)
    /\ wpc = "w_read"
    /\ frames_err = 1
    /\ frames_ok = 2
    /\ naccept = 1
    /\ mon.eagain
    /\ mon.ok
    /\ data_valid

\* C4: once a data frame has been accepted, every successful mmwave_read
\* returns the field values of the data frame accepted last, in the
\* Reading-sized packet and in the engineering packet alike.
C4_ReadReturnsLatest ==
    \A r \in Readers :
       rpc[r] = "r_post" /\ rbuf[r].kind \in {"data", "eng"} /\ latest # NoReading
          => PacketBasic(rbuf[r]) = latest

\* C5: the reading and data_valid are modified only when the frame just
\* completed is a data-family frame with payload length at least 11.
C5_OnlyDataFrames ==
    WorkerHolds =>
       /\ LE32(rxbuf[0], rxbuf[1], rxbuf[2], rxbuf[3]) = LD2410_DATA_HEADER
       /\ frame_len >= 11

\* C15: a rejected payload (data_type not 0x01 or 0x02, or head marker not
\* 0xAA) makes mmwave_process_data_frame return an error and changes neither
\* the reading, the engineering reading, data_valid, frames_ok nor
\* frames_err; data_sem is not taken.
C15_RejectChangesNothing ==
    [][(wpc = "p_check" /\ Rejected /\ wpc' # wpc)
          => /\ wpc' = "w_read"
             /\ UNCHANGED <<data, eng_data, data_valid, frames_ok, frames_err,
                            naccept, latest, data_sem>>]_vars

\* a frame without the head marker was rejected after a frame had been
\* accepted: the reading and data_valid are as the accepted frame left them
C15_Witness ==
    /\ wpc = "w_read"
    /\ ret = 1
    /\ AcceptedChunk = "noHead"
    /\ chunks[1] = "dataA"
    /\ ci = 3
    /\ naccept = 1
    /\ data_valid
    /\ [f \in DOMAIN FieldsA |-> data[f]] = FieldsA

\* the worker is inside the engineering block of mmwave_process_data_frame
EngPcs == {"p_eng_basic", "p_eng_motion", "p_eng_static"}

\* C16: mmwave_process_data_frame modifies the engineering reading only
\* when eng_mode is set and the frame's data_type is 0x01.  eng_data changes
\* only inside the engineering block, the block is entered only when the
\* test of data_type and eng_mode passes, and when the test fails the frame
\* goes on to be accepted with eng_data as it was; the reading itself is
\* updated from every accepted frame.
C16_EngOnlyInEngMode ==
    [][/\ eng_data' # eng_data => wpc \in EngPcs /\ payload(0) = 1
       /\ (wpc \notin EngPcs /\ wpc' \in EngPcs)
             => wpc = "p_data_valid" /\ eng_mode /\ payload(0) = 1
       /\ (wpc = "p_data_valid" /\ wpc' # wpc /\ ~(eng_mode /\ payload(0) = 1))
             => wpc' = "p_post" /\ eng_data' = eng_data
       /\ (wpc = "p_post" /\ wpc' # wpc /\ ChunkFields(AcceptedChunk) # NoReading)
             => [f \in DOMAIN FieldsA |-> data[f]] = ChunkFields(AcceptedChunk)
      ]_vars

\* an engineering frame set the gate arrays; engineering mode was then
\* switched off and a second engineering frame with other gate values was
\* accepted: the reading is the second frame's, the gate arrays the first's
C16_Witness ==
    /\ chunks = <<"eng", "engB">>
    /\ ci = 3
    /\ wpc = "w_read"
    /\ naccept = 2
    /\ ~eng_mode
    /\ data.target_state = FieldsB.target_state
    /\ eng_data.basic.target_state = FieldsE.target_state
    /\ eng_data.motion_gate_energy[0] = GatesM[1]
    /\ eng_data.static_gate_energy[0] = GatesS[1]

(***************************************************************************)
(* Claims about the decoder, checked under SpecCodec.                       *)
(***************************************************************************)
\* the six decoded fields of a struct mmwave_data_s
SixFields(d) == [f \in DOMAIN FieldsA |-> d[f]]

\* the frame on the wire has been parsed and processed
CodecDone == ci > Len(chunks) /\ wpc = "w_read"

\* C13: the standard data frame built from any inputs is accepted
\* (mmwave_process_data_frame returns OK) and leaves the reading with exactly
\* the six inputs, data_valid true and timestamp_ms stamped from the clock.
C13_DataRoundTrip ==
    gen.kind = "data" =>
       /\ wpc = "p_check" => ~Rejected
       /\ CodecDone =>
            /\ naccept = 1
            /\ SixFields(data) = gen.f
            /\ data_valid
            /\ ticks = 1
            /\ data.timestamp_ms = ticks * (1000 \div TICK_PER_SEC)

\* a frame with both bytes of a distance in use came back as it was built
C13_Witness ==
    /\ gen.kind = "data"
    /\ gen.f.target_state = 3
    /\ gen.f.motion_distance = 65535
    /\ gen.f.static_distance = 258
    /\ gen.f.motion_energy = 100
    /\ CodecDone
    /\ data.static_distance = 258
    /\ data.motion_distance = 65535

\* C14: with eng_mode set, the engineering frame built from any inputs
\* leaves eng_data.basic with the frame's basic fields and both gate arrays
\* with the nine inputs each.
C14_EngRoundTrip ==
    (gen.kind = "eng" /\ eng_mode /\ CodecDone) =>
       /\ naccept = 1
       /\ SixFields(eng_data.basic) = gen.f
       /\ \A i \in 0..(LD2410_MAX_GATES - 1) :
             /\ eng_data.motion_gate_energy[i] = gen.mg[i + 1]
             /\ eng_data.static_gate_energy[i] = gen.sg[i + 1]

\* C17: after every accepted data frame target_state is NONE, MOTION,
\* STATIC or BOTH.
C17_TargetStateInRange ==
    (naccept > 0 /\ wpc = "w_read") => data.target_state \in 0..3


(***************************************************************************)
(* Claims about the command channel, checked under SpecCmd.                 *)
(***************************************************************************)
\* the tasks between nxsem_wait(&priv->cmd_sem) and nxsem_post
Writers == {c \in Callers : ipc[c].at = "write"}

\* FA FB FC FD | payload_len LE | payload | 01 02 03 04
IsCommandFrame(b) == IsFrame(b) /\ SubSeq(b, 1, 4) = CmdMagic

\* the poll worker has read the wire to its end and decoded what it found
WorkerDone == ci > Len(chunks) /\ wpc = "w_read"

\* read() in the poll loop has bytes to return: PollBytes can be taken
CanRead == wpc = "w_read" /\ ci <= Len(chunks)

\* the steps of mmwave_process_data_frame on an accepted frame
WorkerDecode ==
    \/ ProcLock
    \/ ProcTargetState
    \/ ProcMotionDistance
    \/ ProcMotionEnergy
    \/ ProcStaticDistance
    \/ ProcStaticEnergy
    \/ ProcDetectionDistance
    \/ ProcTimestamp
    \/ ProcDataValid
    \/ WorkerEng
    \/ ProcUnlock

\* C18: with tasks calling mmwave_send_command concurrently the writes never
\* overlap.  cmd_sem is held by at most one task, from before its write
\* until after it, and is free whenever no task is writing; the bytes of a
\* write that returned its full count lie together on the line and form one
\* whole command frame; while a task is writing the last bytes on the line
\* are its own.  With cmd_sem taken the poll worker, unless it has finished
\* the wire, can still take its next step: read bytes or go on decoding.
C18_CommandsNeverOverlap ==
    /\ cmd_sem \in {0, 1}
    /\ Cardinality(Writers) = 1 - cmd_sem
    /\ \A i \in DOMAIN uart_tx :
         uart_tx[i].off # 0
           => /\ i > 1
              /\ uart_tx[i - 1].by = uart_tx[i].by
              /\ uart_tx[i - 1].off = 0
              /\ IsCommandFrame(uart_tx[i - 1].bytes \o uart_tx[i].bytes)
    /\ \A c \in Writers :
         /\ uart_tx # <<>>
         /\ uart_tx[Len(uart_tx)] =
              [by |-> c, off |-> 0, bytes |-> SubSeq(PhaseFrame(c), 1, WriteHead)]
    /\ (cmd_sem = 0 /\ ~WorkerDone) => (CanRead \/ ENABLED WorkerDecode)

\* the first task has a whole frame on the line and waits for cmd_sem, which
\* the second task holds in the middle of its write, while the poll worker is
\* in the middle of a frame
C18_Witness ==
    /\ ipc["c1"] = [op |-> "maxgate", ph |-> "cmd", at |-> "wait"]
    /\ ipc["c2"].at = "write"
    /\ cmd_sem = 0
    /\ Len(uart_tx) = 3
    /\ uart_tx[1].by = "c1" /\ uart_tx[2].by = "c1" /\ uart_tx[3].by = "c2"
    /\ wpc = "p_post"

\* the ioctl codes that configure the radar
ConfigOps == {"sens", "maxgate", "eng", "restart", "freset"}

\* caller c is not inside ioctl() and its latest call was a configuration
\* operation whose argument passed the checks of its case
Returned(c) ==
    /\ ipc[c].at = "idle"
    /\ ipc[c].op \in ConfigOps
    /\ ~(ipc[c].op = "sens" /\ iarg[c][1] >= LD2410_MAX_GATES)

\* FA FB FC FD 04 00 FF 00 01 00 01 02 03 04
EnterConfigFrame == <<250, 251, 252, 253, 4, 0, 255, 0, 1, 0, 1, 2, 3, 4>>

\* FA FB FC FD 02 00 FE 00 01 02 03 04
ExitConfigFrame == <<250, 251, 252, 253, 2, 0, 254, 0, 1, 2, 3, 4>>

\* the command frame of caller c's operation
OperationFrame(c) ==
    LET a == iarg[c]
    IN  CASE ipc[c].op = "sens" ->
               build_cmd_frame(LD2410_CMD_SET_SENSITIVITY,
                               <<0, 0, a[1], 0, 0, 0, 1, 0, a[2], 0, 0, 0,
                                 2, 0, a[3], 0, 0, 0>>)
          [] ipc[c].op = "maxgate" ->
               build_cmd_frame(LD2410_CMD_SET_MAXGATE,
                               <<0, 0, a[1], 0, 0, 0, 1, 0, a[2], 0, 0, 0,
                                 2, 0, Lo8(a[3]), Hi8(a[3]), 0, 0>>)
          [] ipc[c].op = "eng" ->
               build_cmd_frame(IF a[1] # 0 THEN LD2410_CMD_ENG_MODE_ON
                               ELSE LD2410_CMD_ENG_MODE_OFF, <<>>)
          [] ipc[c].op = "restart" -> build_cmd_frame(LD2410_CMD_RESTART, <<>>)
          [] ipc[c].op = "freset" -> build_cmd_frame(LD2410_CMD_FACTORY_RESET, <<>>)

\* the frame step ph of caller c's operation is to put on the line
StepFrame(c, ph) ==
    CASE ph = "enter" -> EnterConfigFrame
      [] ph = "cmd" -> OperationFrame(c)
      [] ph = "exit" -> ExitConfigFrame

\* the whole frames among the pieces ps, in the order they went out
RECURSIVE WholeFrames(_)
WholeFrames(ps) ==
    IF Len(ps) < 2 THEN <<>>
    ELSE IF ps[1].off = 0 /\ ps[2].off # 0
         THEN <<ps[1].bytes \o ps[2].bytes>> \o WholeFrames(SubSeq(ps, 3, Len(ps)))
         ELSE WholeFrames(Tail(ps))

\* the whole frames caller c has on the line
WireFrames(c) ==
    LET Mine(p) == p.by = c
    IN  WholeFrames(SelectSeq(uart_tx, Mine))

\* the steps of caller c whose write returned its full count, the one whose
\* call is in its usleep included
Written(c) ==
    LET Ok(st) == st.r = "OK"
    IN  SelectSeq(steps[c], Ok)
        \o (IF ipc[c].at = "quiet" THEN <<[ph |-> ipc[c].ph, r |-> "OK"]>> ELSE <<>>)

\* C19: each configuration ioctl (set sensitivity, set max gates, eng mode,
\* restart, factory reset) calls enter_config, then the operation's command,
\* then exit_config: the calls are made in that order, the frames they write
\* are on the line in that order and are the frames of cmd 0x00FF with body
\* 01 00, of the operation and of cmd 0x00FE; the command is sent only after
\* a successful enter_config, and once enter_config has succeeded the call
\* does not return before exit_config was sent, the command failing or not.
C19_EnterCmdExit ==
    \A c \in Callers :
        /\ Len(steps[c]) <= 3
        /\ \A i \in DOMAIN steps[c] : steps[c][i].ph = <<"enter", "cmd", "exit">>[i]
        /\ Len(steps[c]) >= 2 => steps[c][1].r = "OK"
        /\ WireFrames(c) = [i \in 1..Len(Written(c)) |-> StepFrame(c, Written(c)[i].ph)]
        /\ Returned(c) => steps[c] # <<>>
        /\ (Returned(c) /\ steps[c][1].r = "OK") => Len(steps[c]) = 3

\* set sensitivity has returned: enter_config succeeded, the write of the
\* command was short, and exit_config went out after it
C19_Witness ==
    /\ Returned("c1")
    /\ ipc["c1"].op = "sens"
    /\ steps["c1"] = <<[ph |-> "enter", r |-> "OK"], [ph |-> "cmd", r |-> "EIO"],
                       [ph |-> "exit", r |-> "OK"]>>
    /\ WireFrames("c1") = <<EnterConfigFrame, ExitConfigFrame>>
    /\ iret["c1"] = "EIO"

\* the result of the earliest step that failed, OK when none did
FirstError(st) ==
    IF \A i \in DOMAIN st : st[i].r = "OK" THEN "OK"
    ELSE st[CHOOSE i \in DOMAIN st :
                /\ st[i].r # "OK"
                /\ \A j \in 1..(i - 1) : st[j].r = "OK"].r

\* C20: a configuration operation returns the first error of its three
\* steps enter_config, command, exit_config, and OK only when all three
\* succeeded.
C20_FirstErrorSurfaced ==
    \A c \in Callers : Returned(c) => iret[c] = FirstError(steps[c])

\* what ioctl() keeps of caller c: where it stands, its argument, its
\* result and the sends it made
CallOf(c) == <<ipc[c], iarg[c], iret[c], steps[c]>>

\* the pieces caller c has on the line
PiecesOf(c) ==
    LET Mine(p) == p.by = c
    IN  SelectSeq(uart_tx, Mine)

\* C21: set sensitivity with gate >= 9 returns -EINVAL, and an ioctl code
\* the driver does not know returns -ENOTTY, in the step that makes the
\* call: no mmwave_send_command call is made, the caller has no byte on the
\* line, what the other tasks wrote stays as it is, cmd_sem is untouched,
\* and eng_mode, the statistics and the readings are unchanged.
C21_InvalidRefused ==
    [][\A c \in Callers :
         (/\ ipc[c].at = "idle"
          /\ CallOf(c)' # CallOf(c)
          /\ \/ ipc'[c].op = "sens" /\ iarg'[c][1] >= LD2410_MAX_GATES
             \/ ipc'[c].op = "unknown")
         => /\ ipc'[c].at = "idle"
            /\ iret'[c] = IF ipc'[c].op = "sens" THEN "EINVAL" ELSE "ENOTTY"
            /\ steps'[c] = <<>>
            /\ PiecesOf(c)' = <<>>
            /\ \A d \in Callers \ {c} : PiecesOf(d)' = PiecesOf(d)
            /\ UNCHANGED <<cmd_sem, eng_mode, frames_ok, frames_err, data, eng_data,
                           data_valid, latest>>
      ]_vars

\* set sensitivity with gate 9 has returned -EINVAL after engineering mode
\* was switched on and the frame on the wire was accepted, while the second
\* task is in the middle of a write
C21_Witness ==
    /\ ipc["c1"] = [op |-> "sens", ph |-> "idle", at |-> "idle"]
    /\ iarg["c1"] = <<9, 50, 40>>
    /\ iret["c1"] = "EINVAL"
    /\ steps["c1"] = <<>>
    /\ eng_mode
    /\ frames_ok = 1
    /\ naccept = 1
    /\ ipc["c2"].at = "write"
    /\ Len(uart_tx) = 1

\* C22: set sensitivity with motion_threshold > 100 or static_threshold >
\* 100, and set max gates with max_motion_gate > 8 or max_static_gate > 8,
\* return InvalidArgument and write nothing to the UART.
C22_OutOfRangeRefused ==
    \A c \in Callers :
        (\/ ipc[c].op = "sens" /\ (iarg[c][2] > 100 \/ iarg[c][3] > 100)
         \/ ipc[c].op = "maxgate" /\ (iarg[c][1] > 8 \/ iarg[c][2] > 8))
        => /\ ipc[c].at = "idle"
           /\ iret[c] = "EINVAL"
           /\ PiecesOf(c) = <<>>

\* the poll worker has received a frame of the command family
ResponseArrived ==
    \E k \in 1..(ci - 1) : SubSeq(ChunkBytes(chunks[k]), 1, 4) = CmdMagic

\* C23: a command returns Ok only after a command-response frame from the
\* radar has arrived and the poll worker has signalled it to the waiter; a
\* command for which none arrives does not return success.
C23_OkOnlyAfterResponse ==
    \A c \in Callers :
        \A i \in DOMAIN steps[c] : steps[c][i].r = "OK" => ResponseArrived

\* caller c's ENG_MODE_ON or ENG_MODE_OFF command returns OK in this step
EngModeSent(c) ==
    /\ ipc[c] = [op |-> "eng", ph |-> "cmd", at |-> "quiet"]
    /\ steps'[c] = Append(steps[c], [ph |-> "cmd", r |-> "OK"])

\* C24: eng_mode changes only in the eng-mode ioctl and only when the
\* ENG_MODE_ON or ENG_MODE_OFF command succeeded; it is then true after ON
\* and false after OFF.  No other step (a failed enter_config or command,
\* exit_config, read, another ioctl, frame processing) changes it.
C24_EngModeOnlyOnSuccess ==
    [][/\ eng_mode' # eng_mode => \E c \in Callers : EngModeSent(c)
       /\ \A c \in Callers : EngModeSent(c) => eng_mode' = (iarg[c][1] # 0)
      ]_vars

\* engineering mode was switched on and the frame accepted and read; then
\* the write of ENG_MODE_OFF was short: eng_mode is still set
C24_Witness ==
    /\ eng_mode
    /\ ipc["c1"] = [op |-> "eng", ph |-> "idle", at |-> "idle"]
    /\ iarg["c1"] = <<0>>
    /\ steps["c1"] = <<[ph |-> "enter", r |-> "OK"], [ph |-> "cmd", r |-> "EIO"],
                       [ph |-> "exit", r |-> "OK"]>>
    /\ naccept = 1
    /\ mon.ok

(***************************************************************************)
(* Claims about mmwave_send_command on its own, checked under SpecSend.     *)
(***************************************************************************)
\* the longest body whose frame fits in LD2410_MAX_FRAME_LEN bytes
MaxBody == LD2410_MAX_FRAME_LEN - 12

\* FA FB FC FD | 2 + |body| LE | cmd_code LE | body | 01 02 03 04
WireFormat(cmd_code, body) ==
    <<250, 251, 252, 253>>
    \o <<(2 + Len(body)) % 256, (2 + Len(body)) \div 256>>
    \o <<cmd_code % 256, cmd_code \div 256>>
    \o body \o <<1, 2, 3, 4>>

\* the call of mmwave_send_command has returned r
SendReturned(r) ==
    ipc["c1"] = [op |-> "raw", ph |-> "idle", at |-> "idle"] /\ iret["c1"] = r

\* the call of mmwave_send_command was made with a body of more than 52 bytes
LongBody == ipc["c1"].op = "raw" /\ iarg["c1"][2] > MaxBody

\* the part of C25 about bodies of 0..52 bytes
SendsExactFrame ==
    /\ (SendReturned("OK") /\ ~LongBody)
         => LineBytes(uart_tx) = WireFormat(iarg["c1"][1], RawBody(iarg["c1"]))
    /\ (gen.kind = "bytes" /\ ci > Len(chunks) /\ ~LongBody)
         => /\ events = <<Len(gen.b)>>
            /\ frames_ok = 1
            /\ frames_err = 0

\* C25: for every command code and body of 0..52 bytes mmwave_send_command
\* writes exactly FA FB FC FD | 2 + |body| LE | cmd_code LE | body |
\* 01 02 03 04 and returns success only if the whole frame was written; a
\* fresh parser fed those bytes reports exactly one complete frame, at the
\* last byte, with frames_err = 0; and a call with a body longer than 52
\* bytes goes no further than the length check, returns -EINVAL and writes
\* nothing.
C25_SendCommandFormat ==
    /\ SendsExactFrame
    /\ LongBody
         => /\ ipc["c1"].at \in {"check", "idle"}
            /\ ipc["c1"].at = "idle" => iret["c1"] = "EINVAL"
            /\ uart_tx = <<>>

C27_SentinelDistinct ==
    /\ ha.got => ha.data.target_state # HaSentinel
    /\ (ha.got /\ ha.pc \notin {"compare"}) => ha.tried

\* the status line of response r carries a status that begins with 200 or 201
StatusOk(r) ==
    /\ Len(r) >= 12
    /\ SubSeq(r, 1, 9) = <<"H", "T", "T", "P", "/", "1", ".", "1", " ">>
    /\ SubSeq(r, 10, 12) \in {<<"2", "0", "0">>, <<"2", "0", "1">>}

\* C28: ha_post_state reports success only when the HTTP response status
\* begins with 200 or 201; a response with any other status, an empty
\* response, a short send, a refused connection or a DNS failure is a
\* failure and does not advance prev_state.
C28_SuccessOnly2xx ==
    (ha.pc = "posted" /\ ha.ret = "OK") => StatusOk(ha.resp)

\* the latest reading has target_state v, the sink is up and nobody has
\* asked the reporter to stop
Settled(v) ==
    /\ data_valid
    /\ data.target_state = v
    /\ sink = "up"
    /\ ha.reporting

\* C29: no POST failure makes ha_report_task leave its loop: it leaves only
\* when g_reporting was cleared.  And when the latest reading's
\* target_state stays at v and the POSTs succeed from some point on, with
\* the reporter running whenever it can, prev_state eventually equals v.
C29_SurvivesAndConverges ==
    /\ [](ha.pc = "closed" => ~ha.reporting)
    /\ \A v \in {0, 1, HaSentinel} : (<>[]Settled(v)) => <>(ha.prev_state = v)

\* a POST failed, the sink came up, and the state of the last frame on the
\* wire was posted
C29_Witness ==
    /\ ha.failed
    /\ ha.reporting
    /\ sink = "up"
    /\ ci > Len(chunks) /\ Len(chunks) = 2 /\ wpc = "w_read"
    /\ data.target_state = 0
    /\ ha.prev_state = 0
    /\ ha.last_ok = 0
    /\ ha.pc = "sleep"

\* "state":"on" and "state":"off"
StateOn == <<"\"", "s", "t", "a", "t", "e", "\"", ":", "\"", "o", "n", "\"">>
StateOff == <<"\"", "s", "t", "a", "t", "e", "\"", ":", "\"", "o", "f", "f", "\"">>

\* text says "state":"on" exactly when on holds, and else "state":"off"
SaysState(text, on) ==
    /\ StrStr(text, StateOn) <=> on
    /\ StrStr(text, StateOff) <=> ~on

\* C30: for every target_state byte ha_format_state_json emits "state":"on"
\* exactly when target_state # 0 and "state":"off" exactly when
\* target_state = 0, and the body ha_post_state builds makes the same choice.
C30_StateOnOff ==
    /\ ha.json.ret > 0 => SaysState(ha.json.buf, ha.data.target_state # 0)
    /\ ha.body # <<>> => SaysState(ha.body, ha.data.target_state # 0)

\* both builders have run on a reading whose target_state is 255
C30_Witness ==
    /\ ha.data.target_state = 255
    /\ ha.json.ret > 0
    /\ ha.body # <<>>
    /\ StrStr(ha.json.buf, StateOn)
    /\ StrStr(ha.body, StateOn)

\* the whole body ha_format_state_json has to produce for the reading in hand
WholeBody == JsonText(StateText(ha.data.target_state), ha.data)

\* C31: ha_format_state_json returns N, the length of the JSON body in the
\* buffer, whenever bufsize > N, and -1 whenever the buffer is too short for
\* the body and its terminator; it never writes more than bufsize bytes.
C31_LengthOrSentinel ==
    ha.json.ret # 0 =>
        /\ ha.json.size > Len(WholeBody)
             => /\ ha.json.ret = Len(WholeBody)
                /\ ha.json.ret = Len(ha.json.buf)
                /\ ha.json.buf = WholeBody
        /\ ha.json.size <= Len(WholeBody) => ha.json.ret = -1
        /\ ha.json.wrote <= ha.json.size

\* the buffer had room for the body but not for its terminator
C31_Witness ==
    /\ ha.json.size = Len(WholeBody)
    /\ ha.json.ret = -1
    /\ ha.json.wrote = ha.json.size

(***************************************************************************)
(* Claims about tasks that send commands concurrently, checked under        *)
(* SpecCmd and SpecEng.                                                     *)
(***************************************************************************)
\* C32: a command is never in flight together with another one: no task
\* writes a command frame to the UART while another task's command, already
\* written, is still in its quiet period of 50 ms.
C32_QuietBeforeNextWrite ==
    \A c \in Callers : \A d \in Callers \ {c} :
        ~(ipc[c].at = "write" /\ ipc[d].at = "quiet")

\* the last bytes of the frames of enter_config and exit_config, as the
\* second piece of a write carries them
EnterTail == SubSeq(EnterConfigFrame, WriteHead + 1, Len(EnterConfigFrame))
ExitTail == SubSeq(ExitConfigFrame, WriteHead + 1, Len(ExitConfigFrame))

\* piece k of the line is where caller c starts the write that follows its
\* piece i
NextPieceOf(c, i, k) ==
    /\ i < k
    /\ uart_tx[k].by = c
    /\ \A m \in (i + 1)..(k - 1) : uart_tx[m].by # c

\* C33: configuration operations are serialised as whole brackets: the
\* command frame of an operation goes out after the operation's own
\* enter_config, with no exit_config of another task between the two.
C33_WholeBrackets ==
    \A i \in DOMAIN uart_tx : \A j \in DOMAIN uart_tx : \A k \in DOMAIN uart_tx :
        ~(/\ i < j /\ j < k
          /\ uart_tx[i].off # 0 /\ uart_tx[i].bytes = EnterTail
          /\ NextPieceOf(uart_tx[i].by, i, k)
          /\ uart_tx[j].by # uart_tx[i].by
          /\ uart_tx[j].off # 0 /\ uart_tx[j].bytes = ExitTail)

\* the whole frames on the line, whoever wrote them, in the order their
\* last bytes went out
LineFrames ==
    LET Last(p) == p.off # 0
        First(c, k) == CHOOSE i \in 1..(k - 1) :
                          uart_tx[i].by = c /\ \A m \in (i + 1)..(k - 1) : uart_tx[m].by # c
        ends == SelectSeq([k \in DOMAIN uart_tx |-> [p |-> uart_tx[k], k |-> k]],
                          LAMBDA e : Last(e.p))
    IN  [x \in DOMAIN ends |->
            uart_tx[First(ends[x].p.by, ends[x].k)].bytes \o ends[x].p.bytes]

\* the ENG_MODE_ON and ENG_MODE_OFF frames among the frames fs
EngFrames(fs) ==
    SelectSeq(fs, LAMBDA f : f \in {build_cmd_frame(LD2410_CMD_ENG_MODE_ON, <<>>),
                                    build_cmd_frame(LD2410_CMD_ENG_MODE_OFF, <<>>)})

\* C38: when the tasks that issued eng-mode ioctls have all returned,
\* eng_mode is the mode the last ENG_MODE_ON or ENG_MODE_OFF frame written to
\* the UART selects.
C38_FlagAgreesWithRadar ==
    (/\ \A c \in Callers : ipc[c].at = "idle"
     /\ EngFrames(LineFrames) # <<>>)
        => (eng_mode <=>
              EngFrames(LineFrames)[Len(EngFrames(LineFrames))]
                 = build_cmd_frame(LD2410_CMD_ENG_MODE_ON, <<>>))

(***************************************************************************)
(* The frame counters of the parser, checked under SpecParse.               *)
(***************************************************************************)
\* the parser as mmwave_ld2410_register leaves it
FreshParser ==
    [parse_state |-> PARSE_HEADER, rxbuf |-> [i \in 0..(LD2410_MAX_FRAME_LEN - 1) |-> 0],
     rxpos |-> 0, frame_len |-> 0, frames_ok |-> 0, frames_err |-> 0, maxidx |-> -1]

\* the byte the parser takes in state p is the last of a frame: the
\* terminator is checked on it
AtTerminal(p) ==
    p.parse_state = PARSE_PAYLOAD /\ p.rxpos + 1 >= 6 + p.frame_len + 4

\* the byte the parser takes in state p completes a length field that is
\* larger than the buffer allows
AtOversize(p, byte) ==
    /\ p.parse_state = PARSE_LENGTH
    /\ p.rxpos + 1 = 6
    /\ LE16(RxAt(p.rxbuf, 4), byte) > MaxPayload

\* how often the parser, started in p, checks a terminator (what = "tail")
\* or rejects a length (what = "oversize") on bytes[k], bytes[k+1], ...
RECURSIVE CountSteps(_, _, _, _)
CountSteps(what, p, bytes, k) ==
    IF k > Len(bytes) THEN 0
    ELSE (IF \/ what = "tail" /\ AtTerminal(p)
             \/ what = "oversize" /\ AtOversize(p, bytes[k])
          THEN 1 ELSE 0)
         + CountSteps(what, mmwave_parse_byte(p, bytes[k]).p, bytes, k + 1)

\* the bytes the parser has been fed so far
Consumed == SubSeq(Flatten(chunks), 1, n)

TailChecks == CountSteps("tail", FreshParser, Consumed, 1)
OversizeRejects == CountSteps("oversize", FreshParser, Consumed, 1)

\* C37 as stated: in every reachable parser state frames_ok + frames_err is
\* the number of terminator checks the parser has performed.
C37_CountersAreTailChecks ==
    frames_ok + frames_err = TailChecks

\* C37, amended: frames_ok + frames_err is the number of terminator checks
\* plus the number of length fields rejected as too large; frames_ok alone
\* is the number of checks that passed.
C37_CountersAreVerdicts ==
    /\ frames_ok + frames_err = TailChecks + OversizeRejects
    /\ frames_ok = Len(events)
    /\ frames_ok <= TailChecks

\* a frame with a bad terminator and a header with an oversized length were
\* both fed
C37_Witness ==
    /\ TailChecks = 1
    /\ OversizeRejects = 1
    /\ frames_err = 2
    /\ frames_ok = 0

(***************************************************************************)
(* Claims about shutdown, checked under SpecLife, SpecLifeLive, SpecApp and *)
(* SpecAppLive.                                                             *)
(***************************************************************************)
\* C34: once mmwave_ld2410_unregister has closed the UART descriptor or freed
\* the device structure, the poll worker never again reads the descriptor,
\* feeds the parser or writes the reading.
C34_WorkerStoppedBeforeRelease ==
    [][(life.closed \/ life.freed)
         => /\ n' = n
            /\ Parser' = Parser
            /\ data' = data
            /\ data_valid' = data_valid
            /\ data_sem' = data_sem
      ]_vars

\* the worker has left mmwave_poll_task
WorkerGone == life.wl \in {"exited", "nodev"}

\* C35: the worker leaves its loop only on finding g_poll_running false, not
\* because a read failed or timed out; and once unregister has cleared
\* g_poll_running the worker, scheduled fairly, eventually leaves its loop,
\* also when unregister runs before the new worker's first statement.
C35_WorkerObservesShutdown ==
    /\ [][life'.wl = "exited" /\ life.wl # "exited"
            => life.wl = "loop" /\ ~life.running]_vars
    /\ life.signalled ~> WorkerGone

\* the tasks that are inside ha_report_task's loop
Looping == {t \in Tasks : app.task[t] \in {"loop", "tick", "sleep"}}

\* C36: after hactl stop has cleared g_reporting, and with no start after it,
\* every reporter task eventually leaves its loop and attempts no further
\* POST, also when stop comes before the new task's first statement.
C36_StopStopsReporter ==
    app.stop_pending ~> (~app.stop_pending
                           \/ \A t \in Tasks : app.task[t] \in {"none", "closed", "failed"})

\* C39: at most one reporter task is inside its loop at any time, for every
\* sequence of hactl start and hactl stop.
C39_OneReporter ==
    Cardinality(Looping) <= 1

(***************************************************************************)
(* The request of ha_post_state, checked under SpecHttp.                    *)
(***************************************************************************)
\* text ends with tail
EndsWith(text, tail) ==
    /\ Len(text) >= Len(tail)
    /\ SubSeq(text, Len(text) - Len(tail) + 1, Len(text)) = tail

\* C40: the count ha_post_state passes to send() never exceeds the bytes the
\* request buffer holds, at most HA_HTTP_BUF_SIZE - 1, for every host of up
\* to 127 characters, every token of up to 255 characters and every reading;
\* the request is the whole header block followed by the whole JSON body.
C40_SendWithinBuffer ==
    ha.httplen > 0 =>
        /\ ha.httplen <= HA_HTTP_BUF_SIZE - 1
        /\ ha.httplen = Len(ha.http_buf)
        /\ EndsWith(ha.http_buf, ha.body)
        /\ ha.body = WholeBody

====
